---- MODULE Spec2Model ----
(***************************************************************************)
(* The ingest-to-candle pipeline of the trade streamer: the frame handler  *)
(* (hot-store writes and the aggregator's ProcessTrade), the aggregator's  *)
(* flush tick, the migrator and the cold store's upsert.                   *)
(*                                                                         *)
(* Decimal strings (prices, quantities, volumes) are sequences of decimal  *)
(* digits, so that Go's byte-wise string comparison and strconv's parsing  *)
(* and formatting are distinct operations.  Instants are Unix              *)
(* milliseconds.                                                           *)
(***************************************************************************)
EXTENDS Integers, Sequences, FiniteSets, TLC

VARIABLES
    now,        \* the wall clock, Unix milliseconds (time.Now())
    candles,    \* TradeAggregator.candles: key -> Candle
    cold,       \* table trade_candles: <<symbol, timestamp>> -> row
    history,    \* hot store: symbol -> members of trade:<SYM>:history
    tracked,    \* hot store: members of the set <prefix>symbols
    arrived,    \* trades handed to ProcessTrade, in arrival order
    lastMigration, \* the instant of the migrator's last tick
    flushLog,   \* what the flush tick did, if the last step was one
    lastStore,  \* the last direct StoreCandleData call and its outcome
    config,     \* config.Config: the record loaded at startup
    hotLog,     \* the last direct hot-store call and how it returned
    session,    \* streaming sessions: the goroutine of each symbol group
    cancelled,  \* the root context is cancelled
    received,   \* per symbol group, the frames its session has read, in order
    pending,    \* per symbol group, the frame its processMessage is publishing
    channel,    \* Redis Pub/Sub channel "trades": payloads not yet handled
    redisUp,    \* the Redis server of the hot store answers commands
    attempts,   \* per handled frame, the sinks its handler called, in order
    binance,    \* config.Binance: symbol selection and grouping
    exchange,   \* what the exchange answers: exchangeInfo and 24h tickers
    manager,    \* the session managers: Service.Start and Client.StreamTrades
    upserts,    \* per cold-store key, the upserts done by the flush and the migrator
    migrationLog, \* what the migration run did, if the last step was one
    volume,     \* hot store, per variant of StoreTrade: the running-volume keys
    callers,    \* StoreTrade calls in progress, one per process on the hot store
    updaters,   \* the goroutines of StoreTrade that run Update24hVolume
    updateKeys, \* hot store, per symbol: volume:lock, volume:last_update, volume:24h
    resetLog,   \* the resets of the running volume done so far, in order
    process,    \* main: how far the start of the streamer has come
    wire        \* the bytes of each frame: as read, as published, as stored

vars == <<now, candles, cold, history, tracked, arrived, lastMigration, flushLog, lastStore,
          config, hotLog, session, cancelled,
          received, pending, channel, redisUp, attempts,
          binance, exchange, manager, upserts, migrationLog, volume,
          callers, updaters, updateKeys, resetLog, process, wire>>

sessionVars == <<session, cancelled>>

\* What the pipeline's steps never write.
busVars == <<received, pending, channel, redisUp, attempts>>

symVars == <<binance, exchange, manager>>

migVars == <<upserts, migrationLog>>

raceVars == <<callers, updaters, updateKeys, resetLog>>

mainVars == <<process, wire>>

outside == <<hotLog, config, sessionVars, busVars, symVars, volume, raceVars, mainVars>>

----------------------------------------------------------------------------
(* Bounds of the model *)

MaxTrades == 2
MaxMinutes == 1
MaxStoreCalls == 3
MaxDials == 2
MaxTicks == 3
MaxVolume == 100
MaxUpdaters == 2
MaxResets == 2

(* Program constants *)

Minute == 60000
MigrationInterval == 300000
MigrationCutoff == 7200000
MigrationWindow == 79200000
RetentionPeriod == 86400000
MaxTradesPerKey == 1000000
CleanupInterval == 3600000
ReconnectDelay == 5000
PingInterval == 5000
Day == 86400000
HistoryCount == 1000
ZeroTime == -1
ResetWindow == 7200
ResetTTL == 7200000
VolumeTTL == 86400000
NoExpiry == -1
LockTTL == 30000
UpdateTimeout == 30000
UpdateEvery == 300000
FreshTTL == 30000
Volume24hTTL == 300000

Symbols == {"BTCUSDT", "ETHUSDT"}
Prices == {<<9>>, <<1, 0>>}
Quantities == {<<5>>}
Lags == {0, 1}
\* The symbols are interchangeable: the n-th frame carries one of the first n.
FirstSymbols(n) == IF n = 1 THEN {"BTCUSDT"} ELSE Symbols
\* <<StoreTrade succeeds, StoreRawTrade succeeds>>: the hot store accepts the
\* writes of the frames of this pipeline
HotOutcomes == {<<TRUE, TRUE>>}

----------------------------------------------------------------------------
(* Decimal strings *)

RECURSIVE ParseNum(_)
ParseNum(s) ==
    IF s = <<>> THEN 0
    ELSE ParseNum(SubSeq(s, 1, Len(s) - 1)) * 10 + s[Len(s)]

RECURSIVE FormatNum(_)
FormatNum(n) ==
    IF n < 10 THEN <<n>>
    ELSE Append(FormatNum(n \div 10), n % 10)

RECURSIVE StrLess(_, _)
StrLess(a, b) ==
    IF a = <<>> THEN b # <<>>
    ELSE IF b = <<>> THEN FALSE
    ELSE IF a[1] < b[1] THEN TRUE
    ELSE IF a[1] > b[1] THEN FALSE
    ELSE StrLess(Tail(a), Tail(b))

Max(a, b) == IF a >= b THEN a ELSE b
Min(a, b) == IF a <= b THEN a ELSE b

----------------------------------------------------------------------------
(* Time *)

TruncateNone(t, d) == t

Truncate(t, d) == t - (t % d)

IsZero(t) == t = ZeroTime

----------------------------------------------------------------------------
(* Candle *)

NewCandle(timestamp) ==
    [Timestamp |-> timestamp, OpenPrice |-> <<>>, HighPrice |-> <<>>,
     LowPrice |-> <<>>, ClosePrice |-> <<>>, Volume |-> <<0>>, TradeCount |-> 0]

UpdateFromTrade(c, trade) ==
    [c EXCEPT
        !.OpenPrice = IF c.OpenPrice = <<>> THEN trade.Price ELSE @,
        !.HighPrice = IF c.HighPrice = <<>> \/ StrLess(c.HighPrice, trade.Price)
                      THEN trade.Price ELSE @,
        !.LowPrice = IF c.LowPrice = <<>> \/ StrLess(trade.Price, c.LowPrice)
                     THEN trade.Price ELSE @,
        !.ClosePrice = trade.Price,
        !.Volume = FormatNum(ParseNum(c.Volume) + ParseNum(trade.Quantity)),
        !.TradeCount = @ + 1]

----------------------------------------------------------------------------
(* Aggregator: ProcessTrade *)

CandleKey(symbol, candleTime) == <<symbol, candleTime>>

KeySymbol(key) == key[1]

ProcessTradeAlwaysNew(tbl, trade) ==
    LET candleTime == Truncate(trade.Time, Minute)
        key == CandleKey(trade.Symbol, candleTime)
    IN  [k \in DOMAIN tbl \cup {key} |->
            IF k = key THEN UpdateFromTrade(NewCandle(candleTime), trade) ELSE tbl[k]]

ProcessTrade(tbl, trade) ==
    LET candleTime == Truncate(trade.Time, Minute)
        key == CandleKey(trade.Symbol, candleTime)
        candle == IF key \in DOMAIN tbl THEN tbl[key] ELSE NewCandle(candleTime)
    IN  [k \in DOMAIN tbl \cup {key} |->
            IF k = key THEN UpdateFromTrade(candle, trade) ELSE tbl[k]]

----------------------------------------------------------------------------
(* Cold store: StoreCandleData *)

RowOf(candle) ==
    [open |-> ParseNum(candle.OpenPrice), high |-> ParseNum(candle.HighPrice),
     low |-> ParseNum(candle.LowPrice), close |-> ParseNum(candle.ClosePrice),
     volume |-> ParseNum(candle.Volume), trade_count |-> candle.TradeCount]

MergeRowOverwrite(existing, excluded) == excluded

MergeRowNotAdditive(existing, excluded) ==
    [open |-> excluded.open,
     high |-> Max(existing.high, excluded.high),
     low |-> Min(existing.low, excluded.low),
     close |-> excluded.close,
     volume |-> excluded.volume,
     trade_count |-> excluded.trade_count]

MergeRowLastHigh(existing, excluded) ==
    [open |-> excluded.open,
     high |-> excluded.high,
     low |-> Min(existing.low, excluded.low),
     close |-> excluded.close,
     volume |-> existing.volume + excluded.volume,
     trade_count |-> existing.trade_count + excluded.trade_count]

MergeRow(existing, excluded) ==
    [open |-> excluded.open,
     high |-> Max(existing.high, excluded.high),
     low |-> Min(existing.low, excluded.low),
     close |-> excluded.close,
     volume |-> existing.volume + excluded.volume,
     trade_count |-> existing.trade_count + excluded.trade_count]

Upsert(db, key, row) ==
    [k \in DOMAIN db \cup {key} |->
        IF k = key
        THEN IF key \in DOMAIN db THEN MergeRow(db[key], row) ELSE row
        ELSE db[k]]

RejectTimestampNever(timestamp) == FALSE

RejectTimestamp(timestamp) == IsZero(timestamp)

\* dbOk: whether the INSERT ... ON CONFLICT statement succeeds
StoreCandleData(db, symbol, candle, dbOk) ==
    LET timestamp == candle.Timestamp
    IN  IF RejectTimestamp(timestamp) THEN [err |-> TRUE, db |-> db]
        ELSE IF ~dbOk THEN [err |-> TRUE, db |-> db]
        ELSE [err |-> FALSE, db |-> Upsert(db, <<symbol, timestamp>>, RowOf(candle))]

----------------------------------------------------------------------------
(* Hot store: the history sorted set *)

\* A member of the history set: the payload of one frame.  StoreTrade writes
\* the event it re-marshals from the Trade (kind "event"), StoreRawTrade the
\* bytes as received (kind "raw"); both decode to the same TradeData.
Member(kind, trade) ==
    [kind |-> kind, id |-> trade.TradeID, symbol |-> trade.Symbol,
     price |-> trade.Price, quantity |-> trade.Quantity, score |-> trade.Time]

\* Redis orders a sorted set by score and, among equal scores, by the bytes
\* of the member; payloads of one symbol differ first in the trade id.
MemberLess(x, y) ==
    \/ x.score < y.score
    \/ x.score = y.score /\ x.id < y.id
    \/ x.score = y.score /\ x.id = y.id /\ x.kind = "event" /\ y.kind = "raw"

Rank(set, m) == Cardinality({x \in set : MemberLess(x, m)})

\* ZREMRANGEBYSCORE key -inf oldest, then ZREMRANGEBYRANK key 0 -(max+1)
trimHistory(set, clock) ==
    LET oldestTime == clock - config.RetentionPeriod
        young == {m \in set : m.score > oldestTime}
    IN  IF config.MaxTradesPerKey > 0
        THEN {m \in young :
                Rank(young, m) >= Cardinality(young) - config.MaxTradesPerKey}
        ELSE young

ZAddTrim(h, symbol, m, clock) ==
    [h EXCEPT ![symbol] = trimHistory(@ \cup {m}, clock)]

\* The two variants of RedisStore.StoreTrade in the repository.
Builds == {"redis.go", "part_018"}

\* A string key of the hot store: absent, or a value with or without a TTL.
NoKey == [present |-> FALSE, value |-> 0, expires |-> NoExpiry]

Live(key, clock) ==
    key.present /\ (key.expires = NoExpiry \/ clock < key.expires)

\* SET key value EX ttl
SetKey(value, clock, ttl) == [present |-> TRUE, value |-> value, expires |-> clock + ttl]

\* INCRBYFLOAT key by: an absent key counts as 0, a TTL is kept.
IncrByFloat(key, by, clock) ==
    IF Live(key, clock) THEN [key EXCEPT !.value = @ + by]
    ELSE [present |-> TRUE, value |-> by, expires |-> NoExpiry]

\* EXPIRE key ttl
Expire(key, clock, ttl) ==
    IF Live(key, clock) THEN [key EXCEPT !.expires = clock + ttl] ELSE NoKey

\* price * quantity of the trade
TradeVolume(trade) == ParseNum(trade.Price) * ParseNum(trade.Quantity)

\* How far the server got with the commands of one update: Pipeline() sends
\* them in one batch without MULTI/EXEC, so each takes effect on its own.
PipelineOutcomes == {"ok", "first", "none"}

\* The running-volume update of StoreTrade in the variant build, on the keys
\* <prefix><SYM>:volume:running and <prefix><SYM>:volume:reset_time.
\* The first half of the update: part_018 reads the reset-time key and decides
\* whether the counter is to be reset; redis.go reads nothing.
NeedsReset(build, keys, clock) ==
    /\ build = "part_018"
    /\ LET isNil == ~Live(keys.reset, clock)
           lastResetTime == IF isNil THEN 0 ELSE keys.reset.value
       IN  isNil \/ clock \div 1000 - lastResetTime > ResetWindow

\* The second half: the writes, given what the first half decided.
ApplyVolume(build, keys, tradeVolume, clock, outcome, reset) ==
    IF build = "redis.go"
    THEN LET incr == IncrByFloat(keys.running, tradeVolume, clock)
         IN  IF outcome = "none" THEN keys
             ELSE IF outcome = "first" THEN [keys EXCEPT !.running = incr]
             ELSE [keys EXCEPT !.running = Expire(incr, clock, VolumeTTL)]
    ELSE IF reset
         THEN IF outcome = "none" THEN keys
              ELSE IF outcome = "first"
                   THEN [keys EXCEPT !.running = SetKey(tradeVolume, clock, ResetTTL)]
                   ELSE [running |-> SetKey(tradeVolume, clock, ResetTTL),
                         reset |-> SetKey(clock \div 1000, clock, ResetTTL)]
         ELSE IF outcome = "none" THEN keys
              ELSE [keys EXCEPT !.running = IncrByFloat(@, tradeVolume, clock)]

UpdateVolume(build, keys, tradeVolume, clock, outcome) ==
    ApplyVolume(build, keys, tradeVolume, clock, outcome, NeedsReset(build, keys, clock))

\* Both variants after one StoreTrade call reached its volume update.
VolumeAfter(vol, trade, clock, outcome) ==
    [b \in Builds |->
        [vol[b] EXCEPT ![trade.Symbol] =
            UpdateVolume(b, @, TradeVolume(trade), clock, outcome)]]

RECURSIVE Descending(_)
Descending(set) ==
    IF set = {} THEN <<>>
    ELSE LET top == CHOOSE m \in set : \A x \in set \ {m} : MemberLess(x, m)
         IN  <<top>> \o Descending(set \ {top})

RECURSIVE Dedup(_, _)
Dedup(seq, seen) ==
    IF seq = <<>> THEN <<>>
    ELSE IF seq[1].id \in seen THEN Dedup(Tail(seq), seen)
    ELSE <<seq[1]>> \o Dedup(Tail(seq), seen \cup {seq[1].id})

\* ZREVRANGEBYSCORE key end start LIMIT 0 1000, then the duplicate filter
GetTradeHistory(h, symbol, start, end) ==
    LET inRange == {m \in h[symbol] : start <= m.score /\ m.score <= end}
        all == Descending(inRange)
        trades == SubSeq(all, 1, Min(Len(all), HistoryCount))
    IN  Dedup(trades, {})

RECURSIVE Ascending(_)
Ascending(set) ==
    IF set = {} THEN <<>>
    ELSE LET low == CHOOSE m \in set : \A x \in set \ {m} : MemberLess(m, x)
         IN  <<low>> \o Ascending(set \ {low})

\* The reader of pkg/storage/redis.go: ZRANGEBYSCORE key start end, every
\* member decoded and returned
GetTradeHistoryByScore(h, symbol, start, end) ==
    Ascending({m \in h[symbol] : start <= m.score /\ m.score <= end})

ToTrade(m) ==
    [Symbol |-> m.symbol, Price |-> m.price, Quantity |-> m.quantity,
     TradeID |-> m.id, Time |-> m.score]

----------------------------------------------------------------------------
(* Migrator: the candle map of performMigration *)

RECURSIVE BuildCandleMap(_, _)
BuildCandleMap(trades, candleMap) ==
    IF trades = <<>> THEN candleMap
    ELSE LET trade == ToTrade(trades[1])
             tradeTime == Truncate(trade.Time, Minute)
             candle == IF tradeTime \in DOMAIN candleMap
                       THEN candleMap[tradeTime] ELSE NewCandle(tradeTime)
         IN  BuildCandleMap(Tail(trades),
                [k \in DOMAIN candleMap \cup {tradeTime} |->
                    IF k = tradeTime THEN UpdateFromTrade(candle, trade)
                    ELSE candleMap[k]])

\* The candles of one migration run, keyed like the cold store's rows.
MigrationCandles(h, symbols, clock) ==
    LET end == clock - MigrationCutoff
        start == end - MigrationWindow
        mapOf(s) == BuildCandleMap(GetTradeHistory(h, s, start, end), <<>>)
        keys == UNION {{<<s, ts>> : ts \in DOMAIN mapOf(s)} : s \in symbols}
    IN  [k \in keys |-> mapOf(k[1])[k[2]]]

\* StoreCandleData for each candle of tbl whose key is in keys; the calls
\* whose key is in failed meet a database error.
\* A loop that returns at the first failing call.
RECURSIVE StoreAllAbort(_, _, _, _)
StoreAllAbort(db, tbl, keys, failed) ==
    IF keys = {} THEN db
    ELSE LET k == CHOOSE x \in keys : TRUE
         IN  IF k \in failed THEN db
             ELSE StoreAllAbort(StoreCandleData(db, KeySymbol(k), tbl[k], TRUE).db,
                                tbl, keys \ {k}, failed)

RECURSIVE StoreAll(_, _, _, _)
StoreAll(db, tbl, keys, failed) ==
    IF keys = {} THEN db
    ELSE LET k == CHOOSE x \in keys : TRUE
         IN  StoreAll(StoreCandleData(db, KeySymbol(k), tbl[k], k \notin failed).db,
                      tbl, keys \ {k}, failed)

StoreErrorsNone(db, tbl, keys, failed) == {}

StoreErrors(db, tbl, keys, failed) ==
    {k \in keys : StoreCandleData(db, KeySymbol(k), tbl[k], k \notin failed).err}

----------------------------------------------------------------------------
(* Aggregator: flushCandles *)

IsCompleteOrCurrent(candle, currentMinute) == candle.Timestamp <= currentMinute

IsComplete(candle, currentMinute) == candle.Timestamp < currentMinute

FlushRemainingKeepAll(tbl, due, errors) == tbl

FlushRemainingDropAll(tbl, due, errors) ==
    [k \in DOMAIN tbl \ due |-> tbl[k]]

FlushRemaining(tbl, due, errors) ==
    [k \in DOMAIN tbl \ (due \ errors) |-> tbl[k]]

----------------------------------------------------------------------------
(* Symbol selection and grouping *)

ToLower(s) ==
    CASE s = "BTCUSDT" -> "btcusdt"
      [] s = "ETHUSDT" -> "ethusdt"
      [] s = "BNBUSDT" -> "bnbusdt"
      [] s = "SOLUSDT" -> "solusdt"
      [] s = "ADAUSDT" -> "adausdt"
      [] s = "XRPUSDT" -> "xrpusdt"
      [] s = "ETHBTC" -> "ethbtc"
      [] OTHER -> s

\* strings.HasSuffix(symbol, "usdt")
HasSuffixUsdt(symbol) ==
    symbol \in {"btcusdt", "ethusdt", "bnbusdt", "solusdt", "adausdt", "xrpusdt"}

Lowered(seq) == [i \in DOMAIN seq |-> ToLower(seq[i])]

\* GetSymbols returns the configured main symbols without asking the exchange.
MainSymbolsOnly(cfg) ==
    Len(cfg.MainSymbols) > 0 /\ cfg.MaxSymbols <= Len(cfg.MainSymbols)

\* The loop over exchangeInfo.Symbols from entry i on.
RECURSIVE FillSlots(_, _, _, _, _)
FillSlots(info, i, symbolMap, cfg, volumeData) ==
    IF i > Len(info) THEN symbolMap
    ELSE LET symbol == ToLower(info[i].Symbol)
         IN  IF \/ symbol \in symbolMap
                \/ ~HasSuffixUsdt(symbol)
                \/ info[i].Status # "TRADING"
             THEN FillSlots(info, i + 1, symbolMap, cfg, volumeData)
             ELSE IF /\ cfg.MinDailyVolume > 0
                     /\ \/ symbol \notin DOMAIN volumeData
                        \/ volumeData[symbol] < cfg.MinDailyVolume
             THEN FillSlots(info, i + 1, symbolMap, cfg, volumeData)
             ELSE IF Cardinality(symbolMap) < cfg.MaxSymbols
             THEN FillSlots(info, i + 1, symbolMap \cup {symbol}, cfg, volumeData)
             ELSE symbolMap

\* symbolMap when the loop is done.
SymbolMap(cfg, ex) ==
    LET seed == {ToLower(cfg.MainSymbols[i]) : i \in DOMAIN cfg.MainSymbols}
        remainingSlots == cfg.MaxSymbols - Cardinality(seed)
    IN  IF remainingSlots > 0 THEN FillSlots(ex.info, 1, seed, cfg, ex.volume)
        ELSE seed

\* "for symbol := range symbolMap": a Go map is iterated in an order the
\* runtime chooses anew each time.
RangeOrders(set) ==
    {o \in [1..Cardinality(set) -> set] : \A i, j \in DOMAIN o : o[i] = o[j] => i = j}

\* What one GetSymbols call can return; networkOk: the HTTP requests succeed.
GetSymbols(cfg, ex, networkOk) ==
    IF MainSymbolsOnly(cfg)
    THEN {[symbols |-> Lowered(cfg.MainSymbols), err |-> FALSE, network |-> FALSE]}
    ELSE IF ~networkOk
    THEN {[symbols |-> <<>>, err |-> TRUE, network |-> TRUE]}
    ELSE IF SymbolMap(cfg, ex) = {}
    THEN {[symbols |-> <<>>, err |-> TRUE, network |-> FALSE]}
    ELSE {[symbols |-> o, err |-> FALSE, network |-> FALSE] :
            o \in RangeOrders(SymbolMap(cfg, ex))}

\* The grouping loop from index i on (i counts from 0 as in the source).
RECURSIVE GroupsFromSkipping(_, _, _)
GroupsFromSkipping(symbols, i, n) ==
    IF i >= Len(symbols) THEN <<>>
    ELSE <<SubSeq(symbols, i + 1, Min(i + n, Len(symbols)))>>
            \o GroupsFromSkipping(symbols, i + n + 1, n)

RECURSIVE GroupsFrom(_, _, _)
GroupsFrom(symbols, i, n) ==
    IF i >= Len(symbols) THEN <<>>
    ELSE <<SubSeq(symbols, i + 1, Min(i + n, Len(symbols)))>>
            \o GroupsFrom(symbols, i + n, n)

createSymbolGroups(symbols, n) == GroupsFrom(symbols, 0, n)

----------------------------------------------------------------------------
(* The pipeline *)

NoMigration ==
    [ran |-> FALSE, smembersOk |-> FALSE, readFail |-> {}, built |-> {}, errors |-> {}]

\* What is kept of a key no writer has touched yet.
NoUpserts == [flush |-> 0, migrate |-> 0, failed |-> FALSE]

\* The count of upserts after writer who ("flush", "migrate") has stored the
\* candles of keys.
Counted(ups, keys, who) ==
    [k \in DOMAIN ups \cup keys |->
        LET was == IF k \in DOMAIN ups THEN ups[k] ELSE NoUpserts
        IN  IF k \notin keys THEN was
            ELSE IF who = "flush" THEN [was EXCEPT !.flush = @ + 1]
            ELSE [was EXCEPT !.migrate = @ + 1]]

\* The flush has met a database error for the candles of keys: each is logged
\* and left in the table.
Failed(ups, keys) ==
    [k \in DOMAIN ups \cup keys |->
        LET was == IF k \in DOMAIN ups THEN ups[k] ELSE NoUpserts
        IN  IF k \in keys THEN [was EXCEPT !.failed = TRUE] ELSE was]

NoFlush == [ran |-> FALSE, minute |-> 0, attempted |-> {}, errors |-> {}]

NoStore ==
    [n |-> 0, symbol |-> "", candle |-> NewCandle(ZeroTime), err |-> FALSE,
     before |-> {}, reapplied |-> FALSE]

\* config.WebSocket of DefaultConfig
DefaultWebSocket == [ReconnectDelay |-> ReconnectDelay, PingInterval |-> PingInterval]

DefaultConfig ==
    [RetentionPeriod |-> RetentionPeriod, CleanupInterval |-> CleanupInterval,
     MaxTradesPerKey |-> MaxTradesPerKey]

\* Config.Validate returns nil
Validate(c) ==
    /\ ~(c.RetentionPeriod <= 0)
    /\ ~(c.CleanupInterval <= 0)
    /\ ~(c.MaxTradesPerKey < 0)

\* The processes that write to the hot store at the same time: two instances
\* of the streamer, each subscribed to the channel "trades".
Callers == {"p1", "p2"}

NoCall == [pc |-> "idle", trade |-> [Symbol |-> ""], reset |-> [b \in Builds |-> FALSE]]

\* The goroutines StoreTrade starts for Update24hVolume.
\* pc: "idle", "lock" (before SETNX), "ttl", "history", "set" (inside the
\* lock), "del" (the deferred DEL), in this order.
Updaters == 1..MaxUpdaters

NoUpdater == [pc |-> "idle", symbol |-> "", deadline |-> 0, total |-> 0]

\* main has loaded its configuration, opened both stores and started the
\* aggregator, the processor and the ingestion service.
NoValidation == [ran |-> FALSE, config |-> <<>>, websocket |-> <<>>, err |-> FALSE]

Running ==
    [pc |-> "running", storeOpen |-> TRUE, sessions |-> TRUE,
     websocket |-> DefaultWebSocket, validated |-> NoValidation]

\* No frame has been read yet; the processor has subscribed.
NoWire == [subscribed |-> TRUE, received |-> <<>>, channel |-> <<>>, stored |-> <<>>]

\* main has not loaded its configuration yet.
Loading ==
    [pc |-> "load", storeOpen |-> FALSE, sessions |-> FALSE,
     websocket |-> DefaultWebSocket, validated |-> NoValidation]

NoHot == [op |-> "", symbol |-> "", err |-> FALSE, tradeVolume |-> 0]

\* The two session loops of the repository: Service.processSymbolGroup of
\* pkg/ingestion and Client.handleSymbolGroup of pkg/binance.
Sessions == {"ingestion", "client"}

\* The two session managers of the repository: Service.Start of pkg/ingestion
\* and Client.StreamTrades of pkg/binance.
Managers == {"ingestion", "client"}

NoResult == [symbols |-> <<>>, err |-> FALSE, network |-> FALSE]

\* pc: "start" about to call GetSymbols, "sleep" inside time.Sleep,
\* "streaming" the session tasks are started, "failed" returned the error.
\* result: what the last GetSymbols call returned; tasks: per group, the
\* session tasks started for it.
NewManager ==
    [pc |-> "start", result |-> NoResult, groups |-> <<>>, tasks |-> <<>>,
     wakeAt |-> 0, calls |-> 0, i |-> 0]

\* DefaultConfig().Binance, and the exchange of the test server.
DefaultBinance ==
    [MainSymbols |-> <<"BTCUSDT", "ETHUSDT", "BNBUSDT">>, MaxSymbols |-> 5,
     MinDailyVolume |-> 1000000, MaxStreamsPerConn |-> 200]

TestExchange ==
    [info |-> <<[Symbol |-> "BTCUSDT", Status |-> "TRADING"],
                [Symbol |-> "ETHUSDT", Status |-> "TRADING"]>>,
     volume |-> [s \in {"btcusdt", "ethusdt"} |->
                    IF s = "btcusdt" THEN 1000000 ELSE 500000]]

UsualExchange == binance = DefaultBinance /\ exchange = TestExchange

\* createSymbolGroups with one stream per connection: one group, and so one
\* session, per symbol.
SymbolGroups == <<{"BTCUSDT"}, {"ETHUSDT"}>>

Groups == DOMAIN SymbolGroups

NoFrame == [Symbol |-> ""]

\* pc: "loop" the select of the group loop, "select" the select of the frame
\* loop, "reading" inside ReadMessage, "sleep" inside time.Sleep, "done"
\* returned.  conn: the socket of the last dial.  ping: the keepalive task of
\* that socket; oldPings: keepalive tasks of earlier sockets still running.
NewSession ==
    [pc |-> "loop", conn |-> "none", ping |-> "none", oldPings |-> 0,
     pingFailed |-> FALSE, wakeAt |-> 0, failedAt |-> -1, dials |-> 0]

InitStores ==
    /\ now = 0
    /\ candles = <<>>
    /\ cold = <<>>
    /\ history = [s \in Symbols |-> {}]
    /\ tracked = {}
    /\ arrived = <<>>
    /\ lastMigration = 0 - MigrationInterval
    /\ flushLog = NoFlush
    /\ lastStore = NoStore
    /\ hotLog = NoHot
    /\ session = [s \in Sessions |-> NewSession]
    /\ cancelled = FALSE
    /\ received = [g \in Groups |-> <<>>]
    /\ pending = [g \in Groups |-> NoFrame]
    /\ channel = <<>>
    /\ redisUp = TRUE
    /\ attempts = <<>>
    /\ manager = [v \in Managers |-> NewManager]
    /\ upserts = <<>>
    /\ migrationLog = NoMigration
    /\ volume = [b \in Builds |-> [s \in Symbols |-> [running |-> NoKey, reset |-> NoKey]]]
    /\ callers = [c \in Callers |-> NoCall]
    /\ updaters = [u \in Updaters |-> NoUpdater]
    /\ updateKeys = [s \in Symbols |-> [lock |-> NoKey, lastUpdate |-> NoKey, volume24h |-> NoKey]]
    /\ resetLog = <<>>

InitState == InitStores /\ process = Running /\ wire = NoWire

Init == InitState /\ config = DefaultConfig /\ UsualExchange

\* One frame through the handler: StoreTrade, StoreRawTrade, ProcessTrade.
\* storeOk, rawOk: whether the hot store accepts the respective write.  The
\* frames of the model arrive in the first minutes of the run, each with a
\* trade time at most a millisecond before its arrival.
HandleTrade(symbol, price, quantity, lag, storeOk, rawOk) ==
    /\ Len(arrived) < MaxTrades
    /\ now < MigrationCutoff
    /\ lag <= now
    /\ symbol \in FirstSymbols(Len(arrived) + 1)
    /\ LET trade == [Symbol |-> symbol, Price |-> price, Quantity |-> quantity,
                     TradeID |-> Len(arrived) + 1, Time |-> now - lag]
           h1 == IF storeOk
                 THEN ZAddTrim(history, symbol, Member("event", trade), now)
                 ELSE history
           h2 == IF rawOk
                 THEN ZAddTrim(h1, symbol, Member("raw", trade), now)
                 ELSE h1
       IN  /\ tracked' = IF storeOk THEN tracked \cup {symbol} ELSE tracked
           /\ history' = h2
           /\ candles' = ProcessTrade(candles, trade)
           /\ arrived' = Append(arrived, trade)
           /\ volume' = IF storeOk THEN VolumeAfter(volume, trade, now, "ok") ELSE volume
    /\ flushLog' = NoFlush
    /\ migrationLog' = NoMigration
    /\ UNCHANGED <<now, cold, lastMigration, lastStore, upserts>>
    /\ UNCHANGED <<hotLog, config, sessionVars, busVars, symVars, raceVars, mainVars>>

\* One flush tick; failed: the candles whose upsert meets a database error.
Flush(failed) ==
    LET currentMinute == Truncate(now, Minute)
        due == {k \in DOMAIN candles : IsComplete(candles[k], currentMinute)}
        errors == StoreErrors(cold, candles, due, failed)
    IN  /\ failed \subseteq due
        /\ cold' = StoreAll(cold, candles, due, failed)
        /\ candles' = FlushRemaining(candles, due, errors)
        /\ flushLog' = [ran |-> TRUE, minute |-> currentMinute,
                        attempted |-> due, errors |-> errors]
        /\ upserts' = Failed(Counted(upserts, due \ errors, "flush"), failed)
        /\ UNCHANGED <<now, history, tracked, arrived, lastMigration, lastStore>>
        /\ migrationLog' = NoMigration
        /\ UNCHANGED outside

\* One tick of the migrator's 5-minute ticker.  smembersOk: the read of the symbols set succeeds;
\* readFail: the symbols whose history read fails; failed (chosen below): the
\* candles whose upsert meets a database error.
Migrate(smembersOk, readFail) ==
    LET symbols == IF smembersOk THEN tracked \ readFail ELSE {}
        built == MigrationCandles(history, symbols, now)
    IN  /\ now >= lastMigration + MigrationInterval
        /\ lastMigration' = now
        /\ readFail \subseteq tracked
        /\ smembersOk \/ readFail = {}
        /\ \E failed \in SUBSET DOMAIN built :
              LET errors == StoreErrors(cold, built, DOMAIN built, failed)
              IN  /\ cold' = StoreAll(cold, built, DOMAIN built, failed)
                  /\ upserts' = Counted(upserts, DOMAIN built \ errors, "migrate")
                  /\ migrationLog' = [ran |-> TRUE, smembersOk |-> smembersOk,
                                      readFail |-> readFail, built |-> DOMAIN built,
                                      errors |-> errors]
        /\ history' = [s \in Symbols |->
                          IF s \in symbols THEN trimHistory(history[s], now)
                          ELSE history[s]]
        /\ flushLog' = NoFlush
        /\ UNCHANGED <<now, candles, tracked, arrived, lastStore>>
        /\ UNCHANGED outside

\* The instants the clock visits: the first minutes of the run, and the same
\* minutes seen again once the migrator's cutoff has passed.
ClockValues ==
    {j * MigrationCutoff + m * Minute : j \in 0..1, m \in 0..MaxMinutes}

\* Time passes: a minute, or the migrator's cutoff.
AdvanceClock(d) ==
    /\ now + d \in ClockValues
    /\ now' = now + d
    /\ flushLog' = NoFlush
    /\ migrationLog' = NoMigration
    /\ UNCHANGED <<candles, cold, history, tracked, arrived, lastMigration, lastStore,
                   upserts>>
    /\ UNCHANGED outside

Next ==
    \/ \E symbol \in Symbols, price \in Prices, quantity \in Quantities,
          lag \in Lags, hot \in HotOutcomes :
            HandleTrade(symbol, price, quantity, lag, hot[1], hot[2])
    \/ \E failed \in SUBSET DOMAIN candles : Flush(failed)
    \/ \E smembersOk \in BOOLEAN, readFail \in SUBSET tracked :
            Migrate(smembersOk, readFail)
    \/ \E d \in {Minute, MigrationCutoff} : AdvanceClock(d)

Spec == Init /\ [][Next]_vars

----------------------------------------------------------------------------
(* The cold store called directly *)

StoreSymbols == {"BTCUSDT"}

StoreCandles ==
    [Timestamp : {ZeroTime, Minute}, OpenPrice : Prices, HighPrice : Prices,
     LowPrice : Prices, ClosePrice : Prices, Volume : Quantities, TradeCount : {2}]

\* One StoreCandleData call on a database that accepts the statement.
StoreCall(symbol, candle) ==
    /\ lastStore.n < MaxStoreCalls
    /\ LET res == StoreCandleData(cold, symbol, candle, TRUE)
           key == <<symbol, candle.Timestamp>>
       IN  /\ cold' = res.db
           /\ lastStore' =
                [n |-> lastStore.n + 1, symbol |-> symbol, candle |-> candle,
                 err |-> res.err,
                 before |-> IF key \in DOMAIN cold THEN {cold[key]} ELSE {},
                 reapplied |-> /\ lastStore.n > 0
                               /\ ~lastStore.err
                               /\ ~res.err
                               /\ lastStore.symbol = symbol
                               /\ lastStore.candle = candle]
    /\ UNCHANGED <<now, candles, history, tracked, arrived, lastMigration, flushLog>>
    /\ UNCHANGED <<outside, migVars>>

NextStore ==
    \E symbol \in StoreSymbols, candle \in StoreCandles : StoreCall(symbol, candle)

SpecStore == Init /\ [][NextStore]_vars

\* Candles of one minute that differ in open, high, low, volume and trade
\* count, as the aggregator's candle and the candle the migrator rebuilds for
\* the same minute may.
MergeCandles ==
    [Timestamp : {Minute}, OpenPrice : Prices, HighPrice : Prices,
     LowPrice : Prices, ClosePrice : {<<9>>}, Volume : {<<5>>, <<1, 0>>},
     TradeCount : {1, 2}]

NextMerge ==
    \E symbol \in StoreSymbols, candle \in MergeCandles : StoreCall(symbol, candle)

SpecMerge == Init /\ [][NextMerge]_vars

----------------------------------------------------------------------------
(* The frame handler and the aggregator alone, the hot store failing at will *)

SinkOutcomes == BOOLEAN \X BOOLEAN

NextFrames ==
    \/ \E symbol \in Symbols, price \in Prices, quantity \in Quantities,
          lag \in Lags, hot \in SinkOutcomes :
            HandleTrade(symbol, price, quantity, lag, hot[1], hot[2])
    \/ \E failed \in SUBSET DOMAIN candles : Flush(failed)
    \/ AdvanceClock(Minute)

SpecFrames == Init /\ [][NextFrames]_vars

----------------------------------------------------------------------------
(* The hot store called directly, under any configuration Validate accepts *)

HotConfigs ==
    {c \in [RetentionPeriod : {RetentionPeriod}, CleanupInterval : {CleanupInterval},
            MaxTradesPerKey : {-1, 0, 1, 2, MaxTradesPerKey}] : Validate(c)}

\* The trades written: a trade id names one trade of the exchange.
HotTrades ==
    {[Symbol |-> "BTCUSDT", Price |-> <<9>>, Quantity |-> <<5>>, TradeID |-> 1, Time |-> 0],
     [Symbol |-> "BTCUSDT", Price |-> <<1, 0>>, Quantity |-> <<5>>, TradeID |-> 2, Time |-> 59999],
     [Symbol |-> "BTCUSDT", Price |-> <<9>>, Quantity |-> <<5>>, TradeID |-> 3, Time |-> 60000]}

\* One StoreTrade call.  failAt: the first command the server refuses
\* ("sadd" stands for SADD and SET, which precede ZADD), or "none".
StoreTradeCall(trade, failAt) ==
    /\ \A b \in Builds : volume[b][trade.Symbol].running.value < MaxVolume
    /\ tracked' = IF failAt = "sadd" THEN tracked ELSE tracked \cup {trade.Symbol}
    /\ history' =
         IF failAt \in {"sadd", "zadd"} THEN history
         ELSE IF failAt = "trim"
              THEN [history EXCEPT ![trade.Symbol] = @ \cup {Member("event", trade)}]
              ELSE ZAddTrim(history, trade.Symbol, Member("event", trade), now)
    /\ hotLog' = [op |-> "StoreTrade", symbol |-> trade.Symbol,
                  err |-> failAt \in {"sadd", "zadd"},
                  tradeVolume |-> TradeVolume(trade)]
    /\ IF failAt \in {"sadd", "zadd"} THEN volume' = volume
       ELSE \E outcome \in PipelineOutcomes :
                volume' = VolumeAfter(volume, trade, now, outcome)
    /\ UNCHANGED <<now, candles, cold, arrived, lastMigration, flushLog, lastStore, config>>
    /\ UNCHANGED <<sessionVars, busVars, symVars, migVars, raceVars, mainVars>>

\* One StoreRawTrade call with the frame of the trade.
StoreRawTradeCall(trade, failAt) ==
    /\ history' =
         IF failAt = "zadd" THEN history
         ELSE IF failAt = "trim"
              THEN [history EXCEPT ![trade.Symbol] = @ \cup {Member("raw", trade)}]
              ELSE ZAddTrim(history, trade.Symbol, Member("raw", trade), now)
    /\ hotLog' = [op |-> "StoreRawTrade", symbol |-> trade.Symbol,
                  err |-> failAt = "zadd", tradeVolume |-> 0]
    /\ UNCHANGED <<now, candles, cold, tracked, arrived, lastMigration, flushLog,
                   lastStore, config, volume>>
    /\ UNCHANGED <<sessionVars, busVars, symVars, migVars, raceVars, mainVars>>

NextHot ==
    \/ \E trade \in HotTrades, failAt \in {"none", "sadd", "zadd", "trim"} :
            StoreTradeCall(trade, failAt)
    \/ \E trade \in HotTrades, failAt \in {"none", "zadd", "trim"} :
            StoreRawTradeCall(trade, failAt)

InitHot == InitState /\ config \in HotConfigs /\ UsualExchange

SpecHot == InitHot /\ [][NextHot]_vars

\* StoreTrade calls spread over the first minutes and over the minutes after
\* the reset window has gone by.
NextVolume ==
    \/ \E trade \in HotTrades, failAt \in {"none", "sadd", "zadd", "trim"} :
            StoreTradeCall(trade, failAt)
    \/ \E d \in {Minute, MigrationCutoff} : AdvanceClock(d)

SpecVolume == Init /\ [][NextVolume]_vars

----------------------------------------------------------------------------
(* StoreTrade calls of several processes on one hot store, and the volume  *)
(* recomputations they start                                               *)

hotOnly ==
    <<candles, cold, arrived, lastMigration, flushLog, lastStore, config, hotLog,
      sessionVars, busVars, symVars, migVars, mainVars>>

RECURSIVE TotalVolume(_)
TotalVolume(trades) ==
    IF trades = <<>> THEN 0
    ELSE ParseNum(trades[1].quantity) * ParseNum(trades[1].price)
            + TotalVolume(Tail(trades))

\* Process c enters StoreTrade: SADD, SET, ZADD and the trim, all accepted,
\* and in part_018 the GET of the reset-time key.
BeginStore(c, trade) ==
    /\ callers[c].pc = "idle"
    /\ \A b \in Builds : volume[b][trade.Symbol].running.value < MaxVolume
    /\ Len(resetLog) < MaxResets
    /\ tracked' = tracked \cup {trade.Symbol}
    /\ history' = ZAddTrim(history, trade.Symbol, Member("event", trade), now)
    /\ callers' = [callers EXCEPT ![c] =
                      [pc |-> "volume", trade |-> trade,
                       reset |-> [b \in Builds |->
                                    NeedsReset(b, volume[b][trade.Symbol], now)]]]
    /\ UNCHANGED <<now, volume, updaters, updateKeys, resetLog>>
    /\ UNCHANGED hotOnly

\* Process c writes the running volume and returns.  redis.go then claims
\* the key volume:last_update with SETNX and, having got it, starts a
\* goroutine for Update24hVolume under a context of 30 seconds.
FinishStore(c, outcome) ==
    /\ callers[c].pc = "volume"
    /\ LET trade == callers[c].trade
           symbol == trade.Symbol
           resets == {b \in Builds : callers[c].reset[b] /\ outcome # "none"}
           needsUpdate == ~Live(updateKeys[symbol].lastUpdate, now)
           free == {u \in Updaters : updaters[u].pc = "idle"}
       IN  /\ volume' = [b \in Builds |->
                            [volume[b] EXCEPT ![symbol] =
                                ApplyVolume(b, @, TradeVolume(trade), now, outcome,
                                            callers[c].reset[b])]]
           /\ resetLog' = IF resets = {} THEN resetLog
                          ELSE Append(resetLog,
                                      [builds |-> resets, symbol |-> symbol,
                                       caller |-> c, at |-> now])
           /\ IF needsUpdate
              THEN /\ free # {}
                   /\ updateKeys' = [updateKeys EXCEPT ![symbol].lastUpdate =
                                        SetKey(now \div 1000, now, UpdateEvery)]
                   /\ LET u == CHOOSE x \in free : \A y \in free : x <= y
                      IN  updaters' = [updaters EXCEPT ![u] =
                                          [pc |-> "lock", symbol |-> symbol,
                                           deadline |-> now + UpdateTimeout,
                                           total |-> 0]]
              ELSE UNCHANGED <<updateKeys, updaters>>
    /\ callers' = [callers EXCEPT ![c] = NoCall]
    /\ UNCHANGED <<now, history, tracked>>
    /\ UNCHANGED hotOnly

\* One command of Update24hVolume in goroutine u.  A command issued after
\* the context's deadline returns the context's error: the function returns
\* and its deferred DEL, under the same context, fails as well.
UpdaterStep(u) ==
    LET r == updaters[u]
        k == updateKeys[r.symbol]
        expired == now >= r.deadline
        to(pc) == [updaters EXCEPT ![u].pc = pc]
        done == [updaters EXCEPT ![u] = NoUpdater]
    IN  /\ r.pc # "idle"
        /\ CASE expired ->
                    updaters' = done /\ UNCHANGED updateKeys
             [] ~expired /\ r.pc = "lock" ->
                    IF Live(k.lock, now)
                    THEN updaters' = done /\ UNCHANGED updateKeys
                    ELSE /\ updateKeys' = [updateKeys EXCEPT ![r.symbol].lock =
                                              SetKey(1, now, LockTTL)]
                         /\ updaters' = to("ttl")
             [] ~expired /\ r.pc = "ttl" ->
                    /\ updaters' = IF Live(k.volume24h, now)
                                       /\ k.volume24h.expires - now > FreshTTL
                                   THEN to("del") ELSE to("history")
                    /\ UNCHANGED updateKeys
             [] ~expired /\ r.pc = "history" ->
                    /\ updaters' = [updaters EXCEPT ![u].pc = "set", ![u].total =
                            TotalVolume(GetTradeHistoryByScore(history, r.symbol,
                                                               now - RetentionPeriod, now))]
                    /\ UNCHANGED updateKeys
             [] ~expired /\ r.pc = "set" ->
                    /\ updateKeys' = [updateKeys EXCEPT ![r.symbol].volume24h =
                                         SetKey(r.total, now, Volume24hTTL)]
                    /\ updaters' = to("del")
             [] ~expired /\ r.pc = "del" ->
                    /\ updateKeys' = [updateKeys EXCEPT ![r.symbol].lock = NoKey]
                    /\ updaters' = done
        /\ UNCHANGED <<now, history, tracked, volume, callers, resetLog>>
        /\ UNCHANGED hotOnly

\* The instants the clock visits here: a start, the end of the first
\* goroutine's timeout, and the same two once volume:last_update has expired.
RaceClock == {0, LockTTL, UpdateEvery, UpdateEvery + LockTTL}

\* Time passes while calls and goroutines are where they are.
Elapse(d) ==
    /\ now + d \in RaceClock
    /\ now' = now + d
    /\ UNCHANGED <<history, tracked, volume, raceVars>>
    /\ UNCHANGED hotOnly

RaceTrades == {t \in HotTrades : t.TradeID = 1}

NextRace ==
    \/ \E c \in Callers, trade \in RaceTrades : BeginStore(c, trade)
    \/ \E c \in Callers, outcome \in PipelineOutcomes : FinishStore(c, outcome)
    \/ \E u \in Updaters : UpdaterStep(u)
    \/ \E d \in {LockTTL, UpdateEvery} : Elapse(d)

SpecRace == Init /\ [][NextRace]_vars

----------------------------------------------------------------------------
(* The message-bus hop: ingestion sessions publish, the processor handles *)

MaxFrames == 3

Sinks == {"StoreTrade", "StoreRawTrade", "ProcessTrade"}

FramesRead ==
    LET RECURSIVE Count(_)
        Count(gs) == IF gs = {} THEN 0
                     ELSE LET g == CHOOSE x \in gs : TRUE
                          IN  Len(received[g]) + Count(gs \ {g})
    IN  Count(Groups) + Cardinality({i \in DOMAIN attempts : attempts[i].handler = "client"})

\* RedisPubSub.Publish on the channel after it: the server appends the payload
\* to what the subscriber has yet to take, or refuses the command.
PublishFront(ch, payload, up) == IF up THEN <<payload>> \o ch ELSE ch

Publish(ch, payload, up) == IF up THEN Append(ch, payload) ELSE ch

\* The sinks a handler calls for one frame: Service.handleTrade of
\* pkg/processor logs an error and goes on, Client.processMessage of
\* pkg/binance returns on the first error and has no aggregator.
SinksTried(handler, storeOk, rawOk) ==
    IF handler = "processor" THEN Sinks
    ELSE IF storeOk THEN {"StoreTrade", "StoreRawTrade"} ELSE {"StoreTrade"}

SinksFailed(handler, storeOk, rawOk) ==
    {k \in SinksTried(handler, storeOk, rawOk) :
        \/ k = "StoreTrade" /\ ~storeOk
        \/ k = "StoreRawTrade" /\ ~rawOk}

\* The hot store and the aggregator after one frame went through a handler.
AfterSinks(handler, trade, storeOk, rawOk) ==
    LET tried == SinksTried(handler, storeOk, rawOk)
        h1 == IF storeOk
              THEN ZAddTrim(history, trade.Symbol, Member("event", trade), now)
              ELSE history
        h2 == IF "StoreRawTrade" \in tried /\ rawOk
              THEN ZAddTrim(h1, trade.Symbol, Member("raw", trade), now)
              ELSE h1
    IN  /\ tracked' = IF storeOk THEN tracked \cup {trade.Symbol} ELSE tracked
        /\ history' = h2
        /\ candles' = IF "ProcessTrade" \in tried THEN ProcessTrade(candles, trade)
                                                  ELSE candles
        /\ arrived' = IF "ProcessTrade" \in tried THEN Append(arrived, trade)
                                                  ELSE arrived
        /\ volume' = IF storeOk THEN VolumeAfter(volume, trade, now, "ok") ELSE volume
        /\ attempts' = Append(attempts,
                               [handler |-> handler, trade |-> trade, tried |-> tried,
                                failed |-> SinksFailed(handler, storeOk, rawOk)])

\* The session of group g takes a frame off its socket (ReadMessage returns).
ReadFrame(g, symbol, price, quantity) ==
    /\ pending[g] = NoFrame
    /\ FramesRead < MaxFrames
    /\ symbol \in SymbolGroups[g]
    /\ LET trade == [Symbol |-> symbol, Price |-> price, Quantity |-> quantity,
                     TradeID |-> FramesRead + 1, Time |-> now]
       IN  /\ received' = [received EXCEPT ![g] = Append(@, trade)]
           /\ pending' = [pending EXCEPT ![g] = trade]
    /\ UNCHANGED <<channel, redisUp, attempts>>
    /\ UNCHANGED <<now, candles, cold, history, tracked, arrived, lastMigration, flushLog,
                   lastStore, config, hotLog, sessionVars, symVars, migVars, volume, raceVars,
                   mainVars>>

\* Service.processMessage of group g publishes the frame; a publish error is
\* returned to the frame loop, which logs it and reads the next frame.
PublishFrame(g) ==
    /\ pending[g] # NoFrame
    /\ channel' = Publish(channel, pending[g], redisUp)
    /\ pending' = [pending EXCEPT ![g] = NoFrame]
    /\ UNCHANGED <<received, redisUp, attempts>>
    /\ UNCHANGED <<now, candles, cold, history, tracked, arrived, lastMigration, flushLog,
                   lastStore, config, hotLog, sessionVars, symVars, migVars, volume, raceVars,
                   mainVars>>

\* RedisPubSub.Subscribe takes the next payload and calls Service.handleTrade
\* with it; while the server is down neither hot-store write succeeds.
Deliver(storeOk, rawOk) ==
    /\ channel # <<>>
    /\ ~redisUp => (~storeOk /\ ~rawOk)
    /\ AfterSinks("processor", Head(channel), storeOk, rawOk)
    /\ channel' = Tail(channel)
    /\ flushLog' = NoFlush
    /\ UNCHANGED <<received, pending, redisUp>>
    /\ UNCHANGED <<now, cold, lastMigration, lastStore, config, hotLog, sessionVars, symVars, migVars, raceVars, mainVars>>

\* One frame through Client.processMessage, which writes to the hot store
\* itself.
ClientFrame(symbol, price, quantity, storeOk, rawOk) ==
    /\ FramesRead < MaxFrames
    /\ ~redisUp => (~storeOk /\ ~rawOk)
    /\ LET trade == [Symbol |-> symbol, Price |-> price, Quantity |-> quantity,
                     TradeID |-> FramesRead + 1, Time |-> now]
       IN  AfterSinks("client", trade, storeOk, rawOk)
    /\ flushLog' = NoFlush
    /\ UNCHANGED <<received, pending, channel, redisUp>>
    /\ UNCHANGED <<now, cold, lastMigration, lastStore, config, hotLog, sessionVars, symVars, migVars, raceVars, mainVars>>

\* The Redis server becomes unreachable, or reachable again.
RedisFails ==
    /\ redisUp
    /\ redisUp' = FALSE
    /\ UNCHANGED <<received, pending, channel, attempts>>
    /\ UNCHANGED <<now, candles, cold, history, tracked, arrived, lastMigration, flushLog,
                   lastStore, config, hotLog, sessionVars, symVars, migVars, volume, raceVars,
                   mainVars>>

RedisRecovers ==
    /\ ~redisUp
    /\ redisUp' = TRUE
    /\ UNCHANGED <<received, pending, channel, attempts>>
    /\ UNCHANGED <<now, candles, cold, history, tracked, arrived, lastMigration, flushLog,
                   lastStore, config, hotLog, sessionVars, symVars, migVars, volume, raceVars,
                   mainVars>>

\* The frames of this part all carry one price: no claim about the hop
\* depends on it.
BusPrices == {<<9>>}

NextBus ==
    \/ \E g \in Groups, symbol \in Symbols, price \in BusPrices, quantity \in Quantities :
            ReadFrame(g, symbol, price, quantity)
    \/ \E g \in Groups : PublishFrame(g)
    \/ \E hot \in SinkOutcomes : Deliver(hot[1], hot[2])
    \/ \E symbol \in Symbols, price \in BusPrices, quantity \in Quantities,
          hot \in SinkOutcomes :
            ClientFrame(symbol, price, quantity, hot[1], hot[2])
    \/ RedisFails
    \/ RedisRecovers

SpecBus == Init /\ [][NextBus]_vars

----------------------------------------------------------------------------
(* Streaming sessions and their keepalive tasks *)

pipeline ==
    <<candles, cold, history, tracked, arrived, lastMigration, flushLog, lastStore,
      config, hotLog, busVars, symVars, migVars, volume, raceVars, mainVars>>

\* connectAndStream has returned an error to the group loop: the ingestion
\* service sleeps ReconnectDelay and continues, the client continues at once.
AfterStreamError(s, rec) ==
    IF s = "ingestion"
    THEN [rec EXCEPT !.pc = "sleep", !.wakeAt = now + ReconnectDelay]
    ELSE [rec EXCEPT !.pc = "loop"]

\* The group loop finds ctx.Done() ready and returns.
LoopDone(s) ==
    /\ session[s].pc = "loop"
    /\ cancelled
    /\ session' = [session EXCEPT ![s].pc = "done"]
    /\ UNCHANGED <<now, cancelled, pipeline>>

\* The group loop takes the default branch and dials; on success it starts
\* the keepalive task of the new socket and enters the frame loop.
Dial(s, ok) ==
    /\ session[s].pc = "loop"
    /\ ~cancelled
    /\ session[s].dials < MaxDials
    /\ LET rec == [session[s] EXCEPT !.dials = @ + 1]
       IN  session' = [session EXCEPT ![s] =
             IF ok
             THEN [rec EXCEPT !.pc = "select", !.conn = "open", !.ping = "running",
                              !.pingFailed = FALSE,
                              !.oldPings = IF rec.ping = "running" THEN @ + 1 ELSE @]
             ELSE AfterStreamError(s, rec)]
    /\ UNCHANGED <<now, cancelled, pipeline>>

\* The frame loop finds ctx.Done() ready: it returns ctx.Err(), the deferred
\* Close runs, and the group loop sees a non-nil error.
SelectDone(s) ==
    /\ session[s].pc = "select"
    /\ cancelled
    /\ session' = [session EXCEPT ![s] =
                     AfterStreamError(s, [session[s] EXCEPT !.conn = "closed"])]
    /\ UNCHANGED <<now, cancelled, pipeline>>

\* The frame loop takes the default branch and calls ReadMessage.
SelectRead(s) ==
    /\ session[s].pc = "select"
    /\ ~cancelled
    /\ session' = [session EXCEPT ![s].pc = "reading"]
    /\ UNCHANGED <<now, cancelled, pipeline>>

\* ReadMessage returns a frame; it is processed and the loop goes round.
FrameArrives(s) ==
    /\ session[s].pc = "reading"
    /\ session[s].conn = "open"
    /\ session' = [session EXCEPT ![s].pc = "select"]
    /\ UNCHANGED <<now, cancelled, pipeline>>

\* ReadMessage returns an error: the network failed, or the socket was closed
\* under it.  connectAndStream returns, the deferred Close runs.
ReadFails(s) ==
    /\ session[s].pc = "reading"
    /\ session' = [session EXCEPT ![s] =
                     AfterStreamError(s, [session[s] EXCEPT !.conn = "closed",
                                                           !.failedAt = now])]
    /\ UNCHANGED <<now, cancelled, pipeline>>

\* time.Sleep returns.
Wake(s) ==
    /\ session[s].pc = "sleep"
    /\ now >= session[s].wakeAt
    /\ session' = [session EXCEPT ![s].pc = "loop"]
    /\ UNCHANGED <<now, cancelled, pipeline>>

\* handlePing: the ping write fails; the task logs and returns.
PingFails(s) ==
    /\ session[s].ping = "running"
    /\ session' = [session EXCEPT ![s].ping = "exited", ![s].pingFailed = TRUE]
    /\ UNCHANGED <<now, cancelled, pipeline>>

\* handlePing: ctx.Done() is ready; the task returns.
PingDone(s) ==
    /\ session[s].ping = "running"
    /\ cancelled
    /\ session' = [session EXCEPT ![s].ping = "exited"]
    /\ UNCHANGED <<now, cancelled, pipeline>>

\* A keepalive task of an earlier socket returns: its socket is closed, so
\* its next ping write fails (or ctx.Done() is ready).
OldPingExits(s) ==
    /\ session[s].oldPings > 0
    /\ session' = [session EXCEPT ![s].oldPings = @ - 1]
    /\ UNCHANGED <<now, cancelled, pipeline>>

\* The root context is cancelled.
Cancel ==
    /\ ~cancelled
    /\ cancelled' = TRUE
    /\ UNCHANGED <<now, session, pipeline>>

\* Service.Stop of pkg/ingestion: closes every socket registered in wsConns.
Stop ==
    /\ session["ingestion"].conn = "open"
    /\ session' = [session EXCEPT !["ingestion"].conn = "closed"]
    /\ UNCHANGED <<now, cancelled, pipeline>>

\* Half a ReconnectDelay passes.
TickClock ==
    /\ now < MaxTicks * (ReconnectDelay \div 2)
    /\ now' = now + (ReconnectDelay \div 2)
    /\ UNCHANGED <<session, cancelled, pipeline>>

\* The steps a session and its keepalive tasks take by themselves.
SessionStep(s) ==
    \/ LoopDone(s)
    \/ \E ok \in BOOLEAN : Dial(s, ok)
    \/ SelectDone(s)
    \/ SelectRead(s)
    \/ Wake(s)
    \/ session[s].conn = "closed" /\ ReadFails(s)
    \/ session[s].conn = "closed" /\ PingFails(s)
    \/ PingDone(s)
    \/ OldPingExits(s)

\* What the network, the exchange and the caller do.
SessionEnvironment(s) ==
    \/ FrameArrives(s)
    \/ session[s].conn = "open" /\ ReadFails(s)
    \/ session[s].conn = "open" /\ PingFails(s)

NextSession ==
    \/ \E s \in Sessions : SessionStep(s)
    \/ \E s \in Sessions : SessionEnvironment(s)
    \/ Cancel
    \/ Stop
    \/ TickClock

SpecSession == Init /\ [][NextSession]_vars

----------------------------------------------------------------------------
(* The session managers: symbols, groups, one session task per group *)

MaxCap == 3
MaxStreams == 2
MaxCalls == 2

BinanceConfigs ==
    [MainSymbols : {<<>>, <<"BTCUSDT">>, <<"BTCUSDT", "ETHUSDT">>, <<"ETHUSDT", "BTCUSDT">>},
     MaxSymbols : 0..MaxCap,
     MinDailyVolume : {0, 1000},
     MaxStreamsPerConn : 1..MaxStreams]

Exchanges ==
    {[info |-> <<[Symbol |-> "SOLUSDT", Status |-> "TRADING"],
                 [Symbol |-> "BTCUSDT", Status |-> "TRADING"],
                 [Symbol |-> "ETHBTC", Status |-> "TRADING"],
                 [Symbol |-> "XRPUSDT", Status |-> "BREAK"]>>,
      volume |-> [s \in {"solusdt", "btcusdt", "ethbtc"} |->
                     IF s = "solusdt" THEN 2000 ELSE 5000]],
     [info |-> <<[Symbol |-> "BTCUSDT", Status |-> "TRADING"],
                 [Symbol |-> "ADAUSDT", Status |-> "TRADING"],
                 [Symbol |-> "SOLUSDT", Status |-> "TRADING"]>>,
      volume |-> [s \in {"btcusdt", "adausdt", "solusdt"} |->
                     IF s = "adausdt" THEN 500 ELSE 5000]]}

\* What the managers' steps leave alone.
beside ==
    <<candles, cold, history, tracked, arrived, lastMigration, flushLog, lastStore,
      config, hotLog, busVars, session, binance, exchange, migVars, volume,
      raceVars, mainVars>>

\* Manager v calls GetSymbols.  On an error Service.Start returns it, and
\* main cancels the root context; Client.StreamTrades sleeps ReconnectDelay and
\* calls itself.  Otherwise the groups are built and a task started for each.
CallGetSymbols(v, networkOk) ==
    /\ manager[v].pc = "start"
    /\ manager[v].calls < MaxCalls
    /\ \E r \in GetSymbols(binance, exchange, networkOk) :
          LET groups == createSymbolGroups(r.symbols, binance.MaxStreamsPerConn)
              called == [manager[v] EXCEPT !.result = r, !.calls = @ + 1]
          IN  /\ manager' = [manager EXCEPT ![v] =
                    IF r.err
                    THEN IF v = "ingestion"
                         THEN [called EXCEPT !.pc = "failed"]
                         ELSE [called EXCEPT !.pc = "sleep",
                                             !.wakeAt = now + ReconnectDelay]
                    ELSE [called EXCEPT !.pc = "streaming", !.groups = groups,
                                        !.tasks = [g \in DOMAIN groups |-> 1]]]
              /\ cancelled' = (cancelled \/ (r.err /\ v = "ingestion"))
    /\ UNCHANGED <<now, beside>>

\* time.Sleep(ReconnectDelay) returns.
ManagerWake(v) ==
    /\ manager[v].pc = "sleep"
    /\ now >= manager[v].wakeAt
    /\ manager' = [manager EXCEPT ![v].pc = "start"]
    /\ UNCHANGED <<now, cancelled, beside>>

\* The manager's select finds ctx.Done() ready and returns ctx.Err().
ManagerDone(v) ==
    /\ manager[v].pc = "streaming"
    /\ cancelled
    /\ manager' = [manager EXCEPT ![v].pc = "done"]
    /\ UNCHANGED <<now, cancelled, beside>>

NextSymbols ==
    \/ \E v \in Managers, networkOk \in BOOLEAN : CallGetSymbols(v, networkOk)
    \/ \E v \in Managers : ManagerWake(v)
    \/ \E v \in Managers : ManagerDone(v)
    \/ Cancel
    \/ TickClock

InitSymbols ==
    /\ InitState
    /\ config = DefaultConfig
    /\ binance \in BinanceConfigs
    /\ exchange \in Exchanges

SpecSymbols == InitSymbols /\ [][NextSymbols]_vars

----------------------------------------------------------------------------
(* The grouping loop step by step, under any MaxStreamsPerConn *)

MaxGroups == 5

\* Validate does not look at the Binance section: any MaxStreamsPerConn goes
\* with a configuration it accepts.
GroupingConfigs ==
    [MainSymbols : {<<>>, <<"BTCUSDT", "ETHUSDT">>},
     MaxSymbols : {MaxCap},
     MinDailyVolume : {0},
     MaxStreamsPerConn : -1..MaxStreams]

\* Manager v calls GetSymbols and, if it has symbols, enters the loop with i = 0.
BeginGrouping(v, networkOk) ==
    /\ manager[v].pc = "start"
    /\ manager[v].calls < MaxCalls
    /\ \E r \in GetSymbols(binance, exchange, networkOk) :
          LET called == [manager[v] EXCEPT !.result = r, !.calls = @ + 1]
          IN  /\ manager' = [manager EXCEPT ![v] =
                    IF r.err
                    THEN IF v = "ingestion"
                         THEN [called EXCEPT !.pc = "failed"]
                         ELSE [called EXCEPT !.pc = "sleep",
                                             !.wakeAt = now + ReconnectDelay]
                    ELSE IF v = "client" /\ r.symbols = <<>>
                    THEN [called EXCEPT !.pc = "sleep", !.wakeAt = now + ReconnectDelay]
                    ELSE [called EXCEPT !.pc = "grouping", !.groups = <<>>,
                                        !.tasks = <<>>, !.i = 0]]
              /\ cancelled' = (cancelled \/ (r.err /\ v = "ingestion"))
    /\ UNCHANGED <<now, beside>>

\* One iteration of the loop: the slice symbols[i:end] becomes a group (and,
\* in Client.StreamTrades, gets its goroutine), and i grows by
\* MaxStreamsPerConn.  A slice expression with end < i stops the process with
\* a run-time panic.
GroupStep(v) ==
    LET symbols == manager[v].result.symbols
        i == manager[v].i
        n == binance.MaxStreamsPerConn
        end == IF i + n > Len(symbols) THEN Len(symbols) ELSE i + n
    IN  /\ manager[v].pc = "grouping"
        /\ i < Len(symbols)
        /\ Len(manager[v].groups) < MaxGroups
        /\ manager' = [manager EXCEPT ![v] =
              IF i < 0 \/ end < i
              THEN [@ EXCEPT !.pc = "panic"]
              ELSE [@ EXCEPT !.groups = Append(@, SubSeq(symbols, i + 1, end)),
                             !.tasks = Append(@, 1),
                             !.i = i + n]]
        /\ UNCHANGED <<now, cancelled, beside>>

\* The loop condition i < len(symbols) fails: the manager goes on to wait for
\* its sessions.
GroupsDone(v) ==
    /\ manager[v].pc = "grouping"
    /\ manager[v].i >= Len(manager[v].result.symbols)
    /\ manager' = [manager EXCEPT ![v].pc = "streaming"]
    /\ UNCHANGED <<now, cancelled, beside>>

NextGrouping ==
    \/ \E v \in Managers, networkOk \in BOOLEAN : BeginGrouping(v, networkOk)
    \/ \E v \in Managers : GroupStep(v)
    \/ \E v \in Managers : GroupsDone(v)
    \/ \E v \in Managers : ManagerWake(v)
    \/ \E v \in Managers : ManagerDone(v)
    \/ Cancel
    \/ TickClock

InitGrouping ==
    /\ InitState
    /\ config \in {c \in {DefaultConfig} : Validate(c)}
    /\ binance \in GroupingConfigs
    /\ exchange \in Exchanges

SpecGrouping == InitGrouping /\ [][NextGrouping]_vars

----------------------------------------------------------------------------
(* The migrator over several runs, with restarts of the process *)

MaxRuns == 2

MigrationConfigs == {c \in HotConfigs : c.MaxTradesPerKey \in {1, MaxTradesPerKey}}

\* The instants the clock visits here: the first minutes, and the ticks of
\* the migrator from the cutoff on.
MigrationClock ==
    {m * Minute : m \in 0..MaxMinutes}
        \cup {MigrationCutoff + m * Minute + r * MigrationInterval :
                m \in 0..MaxMinutes, r \in 0..(MaxRuns - 1)}

Later(d) ==
    /\ now + d \in MigrationClock
    /\ now' = now + d
    /\ flushLog' = NoFlush
    /\ migrationLog' = NoMigration
    /\ UNCHANGED <<candles, cold, history, tracked, arrived, lastMigration, lastStore,
                   upserts>>
    /\ UNCHANGED outside

\* The process is restarted: the aggregator's candle table starts empty, the
\* migrator's ticker starts anew; both stores keep what they hold.
Restart ==
    /\ candles # <<>>
    /\ candles' = <<>>
    /\ lastMigration' = now
    /\ flushLog' = NoFlush
    /\ migrationLog' = NoMigration
    /\ UNCHANGED <<now, cold, history, tracked, arrived, lastStore, upserts>>
    /\ UNCHANGED outside

\* The frames here carry one price and no lag, and the flush meets no
\* database error: the runs of the migrator are what varies.
NextMigration ==
    \/ \E symbol \in Symbols, price \in BusPrices, quantity \in Quantities,
          hot \in HotOutcomes :
            HandleTrade(symbol, price, quantity, 0, hot[1], hot[2])
    \/ Flush({})
    \/ \E smembersOk \in BOOLEAN, readFail \in SUBSET tracked :
            Migrate(smembersOk, readFail)
    \/ Restart
    \/ \E d \in {Minute, MigrationInterval, MigrationCutoff} : Later(d)

InitMigration == InitState /\ config \in MigrationConfigs /\ UsualExchange

SpecMigration == InitMigration /\ [][NextMigration]_vars

----------------------------------------------------------------------------
(* The start of the streamer, and Config.Validate called on its own *)

startupRest ==
    <<now, candles, cold, history, tracked, arrived, lastMigration, flushLog, lastStore,
      hotLog, sessionVars, busVars, exchange, manager, migVars, volume, raceVars, wire>>

\* What the environment may hold: RETENTION_DAYS and MAX_SYMBOLS, each unset
\* (<<>>) or an integer.
RetentionDays == {<<>>, <<-1>>, <<0>>, <<1>>}
MaxSymbolsEnv == {<<>>} \cup {<<n>> : n \in 0..MaxCap}

\* loadConfig: the default configuration with the two overrides.
LoadConfig(days, maxSymbols) ==
    /\ process.pc = "load"
    /\ config' = IF days = <<>> THEN config
                 ELSE [config EXCEPT !.RetentionPeriod = days[1] * Day]
    /\ binance' = IF maxSymbols = <<>> THEN binance
                  ELSE [binance EXCEPT !.MaxSymbols = maxSymbols[1]]
    /\ process' = [process EXCEPT !.pc = "loaded", !.validated = NoValidation]
    /\ UNCHANGED startupRest

\* NewRedisStore and NewPostgresStore: main goes on with the stores open, or
\* exits when a store cannot be reached.
OpenStores(ok) ==
    /\ process.pc = "loaded"
    /\ process' = [process EXCEPT !.pc = IF ok THEN "stores" ELSE "exited",
                                  !.storeOpen = ok]
    /\ UNCHANGED <<config, binance>>
    /\ UNCHANGED startupRest

\* main starts the aggregator, the processor and the ingestion service.
StartServices ==
    /\ process.pc = "stores"
    /\ process' = [process EXCEPT !.pc = "running", !.sessions = TRUE]
    /\ UNCHANGED <<config, binance>>
    /\ UNCHANGED startupRest

\* The values a test gives the fields Validate is about, and the two
\* durations of config.WebSocket.
ValidationConfigs ==
    [RetentionPeriod : {-1, 0, RetentionPeriod}, CleanupInterval : {-1, 0, CleanupInterval},
     MaxTradesPerKey : {-1, 0, MaxTradesPerKey}]

ValidationWebSockets ==
    [ReconnectDelay : {-1, 0, ReconnectDelay}, PingInterval : {-1, 0, PingInterval}]

\* cfg.Validate() on a configuration of that kind, as TestConfigValidation
\* calls it.
ValidateCall(c, w) ==
    /\ process.pc = "load"
    /\ process' = [process EXCEPT !.validated =
                      [ran |-> TRUE, config |-> c, websocket |-> w, err |-> ~Validate(c)]]
    /\ UNCHANGED <<config, binance>>
    /\ UNCHANGED startupRest

NextStartup ==
    \/ \E days \in RetentionDays, maxSymbols \in MaxSymbolsEnv : LoadConfig(days, maxSymbols)
    \/ \E ok \in BOOLEAN : OpenStores(ok)
    \/ StartServices
    \/ \E c \in ValidationConfigs, w \in ValidationWebSockets : ValidateCall(c, w)

InitStartup ==
    /\ InitStores
    /\ process = Loading
    /\ wire = NoWire
    /\ config = DefaultConfig
    /\ UsualExchange

SpecStartup == InitStartup /\ [][NextStartup]_vars

----------------------------------------------------------------------------
(* The bytes of a frame on their way from the socket to the raw history *)

MaxWire == 3

\* How the exchange wrote a frame: "compact" is the encoding json.Marshal
\* gives the decoded event (the keys of the struct in its order, nothing
\* between the tokens); "other" is any other encoding of the same event
\* (white space, another key order, a key the struct does not have).
Layouts == {"compact", "other"}

\* AggTradeEvent.UnmarshalJSON: the fields, and Raw = the bytes given.
UnmarshalJSON(data) == [Data |-> data.trade, Raw |-> data]

\* json.Marshal of an AggTradeEvent: Raw is tagged json:"-".
Marshal(event) == [trade |-> event.Data, layout |-> "compact"]

wireRest ==
    <<now, cold, lastMigration, lastStore, config, hotLog, sessionVars, symVars, migVars,
      raceVars, process>>

\* Service.processMessage of pkg/ingestion on a frame the session has read:
\* decode, encode again, PUBLISH.  The server hands the payload to the
\* subscribers it has at that moment and keeps no copy.
ProcessMessage(symbol, layout) ==
    /\ Len(wire.received) < MaxWire
    /\ LET trade == [Symbol |-> symbol, Price |-> <<9>>, Quantity |-> <<5>>,
                     TradeID |-> Len(wire.received) + 1, Time |-> now]
           message == [trade |-> trade, layout |-> layout]
           payload == Marshal(UnmarshalJSON(message))
       IN  wire' = [wire EXCEPT
                      !.received = Append(@, [path |-> "bus", message |-> message]),
                      !.channel = IF wire.subscribed THEN Append(@, payload) ELSE @]
    /\ UNCHANGED <<candles, history, tracked, arrived, flushLog, volume, busVars>>
    /\ UNCHANGED wireRest

\* RedisPubSub.Subscribe of the processor takes effect on the server.
Subscribe ==
    /\ ~wire.subscribed
    /\ wire' = [wire EXCEPT !.subscribed = TRUE]
    /\ UNCHANGED <<candles, history, tracked, arrived, flushLog, volume, busVars>>
    /\ UNCHANGED wireRest

\* The subscriber's loop takes the next payload, decodes it and calls
\* Service.handleTrade, which passes trade.Raw to StoreRawTrade.
HandleWire ==
    /\ wire.channel # <<>>
    /\ LET event == UnmarshalJSON(Head(wire.channel))
       IN  /\ AfterSinks("processor", event.Data, TRUE, TRUE)
           /\ wire' = [wire EXCEPT !.channel = Tail(@),
                                   !.stored = Append(@, event.Raw)]
    /\ flushLog' = NoFlush
    /\ UNCHANGED <<received, pending, channel, redisUp>>
    /\ UNCHANGED wireRest

\* Client.processMessage of pkg/binance on a frame: StoreTrade, then
\* StoreRawTrade with the message itself.
ClientMessage(symbol, layout) ==
    /\ Len(wire.received) < MaxWire
    /\ LET trade == [Symbol |-> symbol, Price |-> <<9>>, Quantity |-> <<5>>,
                     TradeID |-> Len(wire.received) + 1, Time |-> now]
           message == [trade |-> trade, layout |-> layout]
           event == UnmarshalJSON(message)
       IN  /\ AfterSinks("client", event.Data, TRUE, TRUE)
           /\ wire' = [wire EXCEPT
                          !.received = Append(@, [path |-> "client", message |-> message]),
                          !.stored = Append(@, message)]
    /\ flushLog' = NoFlush
    /\ UNCHANGED <<received, pending, channel, redisUp>>
    /\ UNCHANGED wireRest

NextWire ==
    \/ \E symbol \in Symbols, layout \in Layouts : ProcessMessage(symbol, layout)
    \/ Subscribe
    \/ HandleWire
    \/ \E symbol \in Symbols, layout \in Layouts : ClientMessage(symbol, layout)

\* main starts the processor and the ingestion service in two goroutines:
\* the subscription is not yet in effect.
InitWire ==
    /\ InitStores
    /\ process = Running
    /\ wire = [NoWire EXCEPT !.subscribed = FALSE]
    /\ config = DefaultConfig
    /\ UsualExchange

SpecWire == InitWire /\ [][NextWire]_vars

----------------------------------------------------------------------------
(* Retention of the hot store's history once trades have stopped *)

MaxSweepMinutes == 6

\* Configurations Validate accepts that differ in CleanupInterval.
RetentionConfigs ==
    {c \in [RetentionPeriod : {RetentionPeriod}, CleanupInterval : {Minute, CleanupInterval},
            MaxTradesPerKey : {MaxTradesPerKey}] : Validate(c)}

\* The instants the clock visits here: the first minutes, and the minutes
\* around the end of the retention period of what was stored in them.
RetentionClock ==
    {0, Minute} \cup {RetentionPeriod - Minute + m * Minute : m \in 0..MaxSweepMinutes}

Pass(d) ==
    /\ now + d \in RetentionClock
    /\ now' = now + d
    /\ flushLog' = NoFlush
    /\ migrationLog' = NoMigration
    /\ UNCHANGED <<candles, cold, history, tracked, arrived, lastMigration, lastStore,
                   upserts>>
    /\ UNCHANGED outside

\* Trades arrive in the first minutes only; afterwards the only code that
\* runs against the history keys is the migrator's tick, whose reads of the
\* hot store all succeed here.
NextRetention ==
    \/ \E symbol \in Symbols, price \in BusPrices, quantity \in Quantities,
          hot \in HotOutcomes :
            HandleTrade(symbol, price, quantity, 0, hot[1], hot[2])
    \/ Migrate(TRUE, {})
    \/ \E d \in {Minute, RetentionPeriod - Minute} : Pass(d)

InitRetention == InitState /\ config \in RetentionConfigs /\ UsualExchange

SpecRetention == InitRetention /\ [][NextRetention]_vars

----------------------------------------------------------------------------
(* Properties *)

\* The minute that contains instant t, stated without the program's Truncate.
MinuteOf(t) == CHOOSE m \in (t - 59999)..t : m % 60000 = 0

\* The trades ProcessTrade received for a key, in arrival order.
TradesOf(key) ==
    SelectSeq(arrived, LAMBDA t : t.Symbol = key[1] /\ MinuteOf(t.Time) = key[2])

RECURSIVE SumQuantities(_)
SumQuantities(trades) ==
    IF trades = <<>> THEN 0
    ELSE ParseNum(trades[1].Quantity) + SumQuantities(Tail(trades))

\* C1: every row of the cold store has low <= open <= high and
\* low <= close <= high, the prices compared as numbers.
C1_ColdRowsOrdered ==
    \A k \in DOMAIN cold :
        /\ cold[k].low <= cold[k].open /\ cold[k].open <= cold[k].high
        /\ cold[k].low <= cold[k].close /\ cold[k].close <= cold[k].high

\* C2: every row of the cold store has trade_count >= 1, volume >= 0 and a
\* minute-aligned timestamp, whether the flush or the migrator wrote it and
\* after any number of merges.
C2_ColdRowsValid ==
    \A k \in DOMAIN cold :
        /\ cold[k].trade_count >= 1
        /\ cold[k].volume >= 0
        /\ k[2] % 60000 = 0

\* A row that the aggregator's flush and the migrator both wrote, beside a row
\* of a trade that arrived a millisecond before the minute boundary.
C2_Witness ==
    /\ lastMigration >= MigrationCutoff
    /\ \E k \in DOMAIN cold : cold[k].trade_count >= 3
    /\ \E i \in 1..Len(arrived) : arrived[i].Time % 60000 = 59999

\* C3: StoreCandleData on an existing row sets open and close to the incoming
\* values, high to the larger, low to the smaller, volume and trade_count to
\* the sums; with no existing row it inserts the incoming candle as it is.
C3_UpsertMergeRules ==
    (lastStore.n > 0 /\ ~lastStore.err) =>
        LET c == lastStore.candle
            k == <<lastStore.symbol, c.Timestamp>>
            o == ParseNum(c.OpenPrice)
            h == ParseNum(c.HighPrice)
            l == ParseNum(c.LowPrice)
            cl == ParseNum(c.ClosePrice)
            v == ParseNum(c.Volume)
        IN  /\ k \in DOMAIN cold
            /\ lastStore.before = {} =>
                  cold[k] = [open |-> o, high |-> h, low |-> l, close |-> cl,
                             volume |-> v, trade_count |-> c.TradeCount]
            /\ \A e \in lastStore.before :
                  cold[k] = [open |-> o,
                             high |-> IF e.high > h THEN e.high ELSE h,
                             low |-> IF e.low < l THEN e.low ELSE l,
                             close |-> cl,
                             volume |-> e.volume + v,
                             trade_count |-> e.trade_count + c.TradeCount]

\* An upsert met a row whose high is above and whose low is below the
\* incoming candle's.
C3_Witness ==
    /\ lastStore.n > 0 /\ ~lastStore.err
    /\ \E e \in lastStore.before :
          /\ e.high > ParseNum(lastStore.candle.HighPrice)
          /\ e.low < ParseNum(lastStore.candle.LowPrice)
          /\ e.open # ParseNum(lastStore.candle.OpenPrice)

\* C4: storing the candle that was stored last once more leaves open, high,
\* low and close of the row as they were and adds the candle's volume and
\* trade_count to the row's.
C4_ReapplyKeepsOHLC ==
    lastStore.reapplied =>
        LET c == lastStore.candle
            k == <<lastStore.symbol, c.Timestamp>>
        IN  \A e \in lastStore.before :
              /\ cold[k].open = e.open /\ cold[k].high = e.high
              /\ cold[k].low = e.low /\ cold[k].close = e.close
              /\ cold[k].volume = e.volume + ParseNum(c.Volume)
              /\ cold[k].trade_count = e.trade_count + c.TradeCount

\* A candle stored three times in a row: the second re-application.
C4_Witness ==
    /\ lastStore.reapplied
    /\ \E e \in lastStore.before :
          e.trade_count = 2 * lastStore.candle.TradeCount

RECURSIVE MaxPrice(_)
MaxPrice(trades) ==
    IF Len(trades) = 1 THEN ParseNum(trades[1].Price)
    ELSE LET rest == MaxPrice(Tail(trades))
             p == ParseNum(trades[1].Price)
         IN  IF p > rest THEN p ELSE rest

RECURSIVE MinPrice(_)
MinPrice(trades) ==
    IF Len(trades) = 1 THEN ParseNum(trades[1].Price)
    ELSE LET rest == MinPrice(Tail(trades))
             p == ParseNum(trades[1].Price)
         IN  IF p < rest THEN p ELSE rest

\* The candle of the table holds every trade received for its key.
HoldsAllTrades(key) ==
    key \in DOMAIN candles /\ candles[key].TradeCount = Len(TradesOf(key))

\* C6: a candle built from a sequence of trades has the first price as open,
\* the last as close, the numerically largest as high, the numerically
\* smallest as low, the sum of the quantities as volume and their number as
\* trade_count.
C6_CandleIsOHLCV ==
    \A k \in DOMAIN candles :
        HoldsAllTrades(k) =>
            LET ts == TradesOf(k)
                c == candles[k]
            IN  /\ c.OpenPrice = ts[1].Price
                /\ c.ClosePrice = ts[Len(ts)].Price
                /\ ParseNum(c.HighPrice) = MaxPrice(ts)
                /\ ParseNum(c.LowPrice) = MinPrice(ts)
                /\ ParseNum(c.Volume) = SumQuantities(ts)
                /\ c.TradeCount = Len(ts)

\* C7: the candle the migrator rebuilds for a minute from the hot store's
\* history is the candle the aggregator built from the same trades.
C7_MigratorEqualsAggregator ==
    \A k \in DOMAIN candles \cap DOMAIN cold :
        (/\ lastMigration >= MigrationCutoff
         /\ HoldsAllTrades(k)
         /\ cold[k].trade_count = candles[k].TradeCount)
            => cold[k] = RowOf(candles[k])

C11_FlushedOnce ==
    [][flushLog'.ran =>
        \A k \in flushLog'.attempted \ flushLog'.errors : k \notin DOMAIN cold
      ]_vars

\* C12: when a StoreRawTrade call has returned, the history set of its symbol
\* has at most MaxTradesPerKey members, whatever accepted value that is.
C12_HistoryCapped ==
    [][hotLog'.op = "StoreRawTrade" =>
        Cardinality(history'[hotLog'.symbol]) <= config.MaxTradesPerKey
      ]_vars

\* The instants a history read is bounded by.
RangeEnds == {0, 59999, 60000}

\* The trade ids stored for the symbol with a trade time in [start, end].
StoredIds(symbol, start, end) ==
    {m.id : m \in {x \in history[symbol] : start <= x.score /\ x.score <= end}}

\* C13: GetTradeHistory(symbol, start, end) returns the stored trades whose
\* trade time lies in [start, end], both ends included, in ascending order of
\* trade time (below the cap every such trade is returned).
C13_HistoryAscending ==
    \A start \in RangeEnds, end \in RangeEnds :
        start <= end =>
            LET r == GetTradeHistory(history, "BTCUSDT", start, end)
            IN  /\ \A i \in 1..Len(r) : start <= r[i].score /\ r[i].score <= end
                /\ {r[i].id : i \in 1..Len(r)} = StoredIds("BTCUSDT", start, end)
                /\ \A i \in 1..Len(r), j \in 1..Len(r) :
                      i < j => r[i].score <= r[j].score

\* C14: GetTradeHistory returns each trade id at most once, also for a trade
\* that both StoreTrade and StoreRawTrade wrote to the history.
C14_HistoryDeduplicated ==
    \A start \in RangeEnds, end \in RangeEnds :
        start <= end =>
            LET r == GetTradeHistoryByScore(history, "BTCUSDT", start, end)
            IN  \A i \in 1..Len(r), j \in 1..Len(r) :
                    i # j => r[i].id # r[j].id

\* The step is a failed ReadMessage of session s.
ReadFailed(s) ==
    /\ session[s].pc = "reading"
    /\ session'[s].pc \notin {"reading", "select"}

\* The step is a dial of session s.
Dialled(s) == session'[s].dials = session[s].dials + 1

\* What C15 says of session s: a failed read closes the socket and does not
\* end the session, and no dial follows a failed read sooner than
\* ReconnectDelay after it.
ReconnectsAfterDelay(s) ==
    /\ ReadFailed(s) => session'[s].conn = "closed" /\ session'[s].pc # "done"
    /\ (Dialled(s) /\ session[s].failedAt >= 0) =>
            now >= session[s].failedAt + ReconnectDelay
    /\ (session[s].pc # "done" /\ session'[s].pc = "done") => cancelled

\* C15: when a read on a session's socket fails, the session closes the
\* socket, waits ReconnectDelay and dials again; it does not redial earlier
\* and it does not exit.
C15_ReconnectAfterDelay ==
    [][\A s \in Sessions : ReconnectsAfterDelay(s)]_vars

\* Session s waits for the network: it is not sleeping, and neither it nor
\* its keepalive tasks have a step of their own to take.
Waiting(s) == session[s].pc # "sleep" /\ ~ENABLED SessionStep(s)

\* C16: when the ping write of a session's keepalive task has failed, the
\* session closes the socket and goes back to connecting: it is not left
\* waiting on the open socket.
C16_PingFailureReconnects ==
    \A s \in Sessions :
        (session[s].pingFailed /\ Waiting(s)) => session[s].conn # "open"

\* C17: once the root context is cancelled every session closes its socket
\* and returns and every keepalive task returns, without a further frame:
\* a session that has no step left has done so.
C17_CancelTerminates ==
    \A s \in Sessions :
        (cancelled /\ Waiting(s)) =>
            /\ session[s].pc = "done"
            /\ session[s].conn # "open"
            /\ session[s].ping # "running"
            /\ session[s].oldPings = 0

\* C18: for every received frame, StoreTrade, StoreRawTrade and the
\* aggregator's ProcessTrade are each attempted whether or not another of them
\* failed, and a sink failure does not end the frame loop: the subscriber
\* still takes the next payload.
C18_EverySinkAttempted ==
    /\ \A i \in DOMAIN attempts : attempts[i].tried = Sinks
    /\ channel # <<>> => ENABLED Deliver(FALSE, FALSE)

Quiet == channel = <<>> /\ \A g \in Groups : pending[g] = NoFrame

\* C19: every frame a session received reaches the aggregator's ProcessTrade,
\* also when the hot store was unavailable meanwhile: once nothing is in
\* flight, every received frame is among the trades handed to ProcessTrade
\* and its minute candle exists.
C19_FramesReachAggregator ==
    Quiet =>
        \A g \in Groups : \A i \in DOMAIN received[g] :
            /\ \E j \in DOMAIN arrived : arrived[j] = received[g][i]
            /\ CandleKey(received[g][i].Symbol, Truncate(received[g][i].Time, Minute))
                    \in DOMAIN candles

IsSubseq(a, b) ==
    LET RECURSIVE Sub(_, _)
        Sub(i, j) == IF i > Len(a) THEN TRUE
                     ELSE IF j > Len(b) THEN FALSE
                     ELSE IF a[i] = b[j] THEN Sub(i + 1, j + 1)
                     ELSE Sub(i, j + 1)
    IN  Sub(1, 1)

ReceivedOf(symbol) ==
    LET g == CHOOSE x \in Groups : symbol \in SymbolGroups[x]
        Test(t) == t.Symbol = symbol
    IN  SelectSeq(received[g], Test)

\* The trades of a symbol in the order of the StoreTrade calls of the
\* processor, and in the order of the ProcessTrade calls.
StoredOf(symbol) ==
    LET Test(a) == /\ a.handler = "processor"
                   /\ "StoreTrade" \in a.tried
                   /\ a.trade.Symbol = symbol
        calls == SelectSeq(attempts, Test)
    IN  [i \in DOMAIN calls |-> calls[i].trade]

AggregatedOf(symbol) ==
    LET Test(t) == t.Symbol = symbol
    IN  SelectSeq(arrived, Test)

\* C20: for each symbol, trades reach the hot store and the aggregator's
\* ProcessTrade in the order in which the session received them, also across
\* the message-bus hop and with several sessions publishing concurrently.
C20_OrderPerSymbol ==
    \A symbol \in Symbols :
        /\ IsSubseq(StoredOf(symbol), ReceivedOf(symbol))
        /\ IsSubseq(AggregatedOf(symbol), ReceivedOf(symbol))

\* Two sessions have published, their frames interleaved on the channel, and
\* the processor has handled two trades of one symbol around one of the other.
C20_Witness ==
    /\ Len(arrived) = 3
    /\ arrived[1].Symbol = "BTCUSDT"
    /\ arrived[2].Symbol = "ETHUSDT"
    /\ arrived[3].Symbol = "BTCUSDT"
    /\ Len(StoredOf("BTCUSDT")) = 2
    /\ Len(StoredOf("ETHUSDT")) = 1

Streaming(v) == manager[v].pc = "streaming"

Concat(seqs) ==
    LET RECURSIVE Cat(_)
        Cat(i) == IF i > Len(seqs) THEN <<>> ELSE seqs[i] \o Cat(i + 1)
    IN  Cat(1)

Range(seq) == {seq[i] : i \in DOMAIN seq}

Take(seq, n) == SubSeq(seq, 1, Min(n, Len(seq)))

\* C21: the symbol groups are contiguous slices of the working set, each of 1
\* to MaxStreamsPerConn symbols, whose concatenation in order is the working
\* set, every symbol in exactly one group; one session task is started per
\* group.
C21_GroupsPartition ==
    \A v \in Managers :
        Streaming(v) =>
            LET groups == manager[v].groups
                symbols == manager[v].result.symbols
            IN  /\ \A g \in DOMAIN groups :
                      /\ 1 <= Len(groups[g])
                      /\ Len(groups[g]) <= binance.MaxStreamsPerConn
                /\ Concat(groups) = symbols
                /\ \A i \in DOMAIN symbols :
                      Cardinality({g \in DOMAIN groups : symbols[i] \in Range(groups[g])}) = 1
                /\ DOMAIN manager[v].tasks = DOMAIN groups
                /\ \A g \in DOMAIN groups : manager[v].tasks[g] = 1

\* Three symbols under two streams per connection: a full group and a rest.
C21_Witness ==
    \E v \in Managers :
        /\ Streaming(v)
        /\ Len(manager[v].result.symbols) = 3
        /\ Len(manager[v].groups) = 2
        /\ Len(manager[v].groups[1]) = 2
        /\ Len(manager[v].groups[2]) = 1

\* C22: with a positive MaxSymbols, GetSymbols returns at most MaxSymbols
\* symbols; with a priority list of at least MaxSymbols entries it returns the
\* lowercased priority list cut to its first MaxSymbols entries.
C22_CapRespected ==
    \A v \in Managers :
        (Streaming(v) /\ binance.MaxSymbols > 0) =>
            /\ Len(manager[v].result.symbols) <= binance.MaxSymbols
            /\ Len(binance.MainSymbols) >= binance.MaxSymbols =>
                    manager[v].result.symbols =
                        Take(Lowered(binance.MainSymbols), binance.MaxSymbols)

\* The exchange symbols GetSymbols may add, in the order of the response:
\* TRADING, a USDT pair, of enough volume when a minimum is set, not a
\* priority symbol.
Eligible ==
    LET Test(sym) ==
            /\ sym.Status = "TRADING"
            /\ HasSuffixUsdt(ToLower(sym.Symbol))
            /\ ToLower(sym.Symbol) \notin Range(Lowered(binance.MainSymbols))
            /\ binance.MinDailyVolume > 0 =>
                    /\ ToLower(sym.Symbol) \in DOMAIN exchange.volume
                    /\ exchange.volume[ToLower(sym.Symbol)] >= binance.MinDailyVolume
    IN  Lowered([i \in DOMAIN SelectSeq(exchange.info, Test) |->
                    SelectSeq(exchange.info, Test)[i].Symbol])

\* C23: with a priority list shorter than the cap, GetSymbols returns the
\* lowercased priority symbols in configured order, then eligible exchange
\* symbols in the order of the response, up to the cap; two calls under the
\* same configuration and responses return the same list.
C23_PriorityThenExchange ==
    /\ \A v \in Managers :
          (Streaming(v) /\ Len(binance.MainSymbols) < binance.MaxSymbols) =>
              manager[v].result.symbols =
                  Take(Lowered(binance.MainSymbols) \o Eligible, binance.MaxSymbols)
    /\ \A v, w \in Managers :
          (Streaming(v) /\ Streaming(w)) =>
              manager[v].result.symbols = manager[w].result.symbols

\* C24: with MaxSymbols = 0 the working set is uncapped: the priority symbols
\* and every eligible exchange symbol.
C24_ZeroMeansUncapped ==
    \A v \in Managers :
        (/\ binance.MaxSymbols = 0
         /\ manager[v].calls > 0
         /\ ~manager[v].result.network
         /\ Range(Lowered(binance.MainSymbols)) \cup Range(Eligible) # {}) =>
            /\ ~manager[v].result.err
            /\ Range(manager[v].result.symbols) =
                    Range(Lowered(binance.MainSymbols)) \cup Range(Eligible)

\* C25: when GetSymbols fails with a network error the session manager does
\* not return the error: it sleeps ReconnectDelay and calls GetSymbols again.
C25_RetriesGetSymbols ==
    \A v \in Managers :
        /\ manager[v].pc # "failed"
        /\ (manager[v].pc = "sleep" /\ manager[v].result.network) =>
                manager[v].wakeAt >= ReconnectDelay

\* C26: across successive migration runs, the trades of a (symbol, minute) are
\* upserted into the cold store by the migrator at most once.
C26_MigratedOnce ==
    \A k \in DOMAIN upserts : upserts[k].migrate <= 1

\* The trades of key k all lie in the window of a migration run at the
\* present instant.
InWindow(k) ==
    /\ TradesOf(k) # <<>>
    /\ \A i \in DOMAIN TradesOf(k) :
          /\ TradesOf(k)[i].Time <= now - MigrationCutoff
          /\ TradesOf(k)[i].Time >= now - MigrationCutoff - MigrationWindow

\* The last step was a migration run in which every read and every upsert
\* succeeded.
CleanRun ==
    /\ migrationLog.ran
    /\ migrationLog.smembersOk
    /\ migrationLog.readFail = {}
    /\ migrationLog.errors = {}

\* C27: when the aggregator has flushed the candle of a (symbol, minute) and
\* the migrator then upserts the candle it rebuilt from the same trades, the
\* row holds the volume and the count of those trades.
C27_FlushThenMigrate ==
    \A k \in DOMAIN upserts :
        (/\ upserts[k].flush = 1
         /\ upserts[k].migrate = 1
         /\ k \notin DOMAIN candles
         /\ CleanRun
         /\ k \in migrationLog.built) =>
            /\ cold[k].volume = SumQuantities(TradesOf(k))
            /\ cold[k].trade_count = Len(TradesOf(k))

\* C28: a trade written to the history whose minute the aggregator never
\* flushed is written to the cold store by the migrator, counted once: after
\* a migration run without failures whose window holds the minute, the row
\* of the minute counts each of its trades once.  Under every accepted
\* configuration.
C28_UnflushedMigrated ==
    \A symbol \in Symbols, m \in 0..MaxMinutes :
        LET k == CandleKey(symbol, m * Minute)
        IN  (/\ InWindow(k)
             /\ k \notin DOMAIN candles
             /\ (k \in DOMAIN upserts => upserts[k].flush = 0)
             /\ CleanRun) =>
                /\ k \in DOMAIN cold
                /\ cold[k].trade_count = Len(TradesOf(k))
                /\ cold[k].volume = SumQuantities(TradesOf(k))

\* The row of key k after a successful upsert of candle c into db.
Upserted(db, k, c) ==
    IF k \in DOMAIN db THEN MergeRow(db[k], RowOf(c)) ELSE RowOf(c)

Stale(keys, clock) ==
    \/ ~Live(keys.reset, clock)
    \/ clock \div 1000 - keys.reset.value > ResetWindow

Added(old, new, tradeVolume, clock) ==
    /\ Live(new.running, clock)
    /\ new.running.value =
         (IF Live(old.running, clock) THEN old.running.value ELSE 0) + tradeVolume
    /\ new.reset = old.reset

ResetDone(new, tradeVolume, clock) ==
    /\ Live(new.running, clock)
    /\ new.running.value = tradeVolume
    /\ Live(new.reset, clock)
    /\ new.reset.value = clock \div 1000

VolumeStep(b) ==
    LET symbol == hotLog'.symbol
        old == volume[b][symbol]
        new == volume'[b][symbol]
    IN  \/ new = old
        \/ IF Stale(old, now) THEN ResetDone(new, hotLog'.tradeVolume, now)
                              ELSE Added(old, new, hotLog'.tradeVolume, now)

C30_VolumeAddOrReset ==
    [][(hotLog'.op = "StoreTrade" /\ ~hotLog'.err) =>
            \A b \in Builds : VolumeStep(b)]_vars

\* C31: with several StoreTrade calls for one symbol in progress at the same
\* time, the running volume of the symbol is reset at most once per window:
\* two resets of one counter are at least a whole window apart.
C31_OneResetPerWindow ==
    \A i, j \in DOMAIN resetLog :
        (i < j /\ resetLog[i].symbol = resetLog[j].symbol
               /\ resetLog[i].builds \cap resetLog[j].builds # {})
            => resetLog[j].at - resetLog[i].at >= ResetTTL

\* C32: for each symbol at most one execution of Update24hVolume is between
\* its SETNX of the lock key and the end of its recomputation and write.
InSection(u) == updaters[u].pc \in {"ttl", "history", "set"}

C32_OneUpdaterAtATime ==
    \A u, v \in Updaters :
        (u # v /\ InSection(u) /\ InSection(v))
            => updaters[u].symbol # updaters[v].symbol

\* C33: while the background work is up to date (no tick of it is overdue),
\* no history entry has been older than now - RetentionPeriod for as long as
\* CleanupInterval: the sweep over the tracked symbols, every CleanupInterval,
\* has removed it, whether or not further trades of the symbol were stored.
Overdue == now >= lastMigration + MigrationInterval

C33_SweptEveryCleanupInterval ==
    ~Overdue =>
        \A s \in tracked : \A m \in history[s] :
            m.score + config.RetentionPeriod + config.CleanupInterval > now

\* C34: a configuration with a negative duration (RetentionPeriod,
\* CleanupInterval, ReconnectDelay, PingInterval), a zero RetentionPeriod or a
\* negative MaxTradesPerKey is rejected at startup: Validate returns an error
\* for it, and the streamer neither opens a store nor starts its services
\* with it.  Validate accepts the default configuration.
Rejectable(c, w) ==
    \/ c.RetentionPeriod <= 0
    \/ c.CleanupInterval < 0
    \/ w.ReconnectDelay < 0
    \/ w.PingInterval < 0
    \/ c.MaxTradesPerKey < 0

C34_InvalidConfigRejected ==
    /\ process.validated.ran =>
          /\ Rejectable(process.validated.config, process.validated.websocket)
                => process.validated.err
          /\ (process.validated.config = DefaultConfig
                /\ process.validated.websocket = DefaultWebSocket)
                => ~process.validated.err
    /\ Rejectable(config, process.websocket)
          => (~process.storeOpen /\ ~process.sessions)

\* C35: what StoreRawTrade was given for a frame is, byte for byte, what the
\* session read from the exchange for that frame, on the way through the
\* message bus as well as on the direct way.
ReceivedAs(id) ==
    {wire.received[i].message : i \in {j \in DOMAIN wire.received :
                                        wire.received[j].message.trade.TradeID = id}}

C35_RawPayloadPreserved ==
    \A j \in DOMAIN wire.stored :
        wire.stored[j] \in ReceivedAs(wire.stored[j].trade.TradeID)

\* C38: once the processor has subscribed and has handled all there is on
\* the channel, every frame a session read and published has been handled
\* at least once, whenever the subscription came into effect.
HandledIds == {attempts[i].trade.TradeID : i \in DOMAIN attempts}

C38_EveryFrameDelivered ==
    (wire.subscribed /\ wire.channel = <<>>) =>
        \A i \in DOMAIN wire.received :
            wire.received[i].path = "bus"
                => wire.received[i].message.trade.TradeID \in HandledIds

\* The trades ProcessTrade has accepted for the candle of key k, and what they
\* add up to.
TradeKey(trade) == CandleKey(trade.Symbol, Truncate(trade.Time, Minute))

Accepted(k) == {i \in DOMAIN arrived : TradeKey(arrived[i]) = k}

RECURSIVE QuantityOf(_)
QuantityOf(is) ==
    IF is = {} THEN 0
    ELSE LET i == CHOOSE x \in is : TRUE
         IN  ParseNum(arrived[i].Quantity) + QuantityOf(is \ {i})

\* What the table holds for key k, and what the successful StoreCandleData
\* calls of the flush have handed over for it: the upsert adds them up, and
\* under SpecFrames the flush is the only writer of the cold store.
InTable(k) ==
    IF k \in DOMAIN candles
    THEN [trade_count |-> candles[k].TradeCount, volume |-> ParseNum(candles[k].Volume)]
    ELSE [trade_count |-> 0, volume |-> 0]

Flushed(k) ==
    IF k \in DOMAIN cold
    THEN [trade_count |-> cold[k].trade_count, volume |-> cold[k].volume]
    ELSE [trade_count |-> 0, volume |-> 0]

AllKeys == DOMAIN candles \cup DOMAIN cold \cup {TradeKey(arrived[i]) : i \in DOMAIN arrived}

\* C36: under any interleaving of ProcessTrade calls and flush ticks, the
\* trades accepted for a key are each in exactly one candle, which is still in
\* the table or was stored by a successful StoreCandleData call of the flush:
\* per key, the trade counts and the volumes of the table's candle and of the
\* flushed candles add up to the count and the quantity of the accepted trades,
\* so that no trade is dropped and none is counted twice.
C36_TradeInOneCandle ==
    \A k \in AllKeys :
        /\ InTable(k).trade_count + Flushed(k).trade_count = Cardinality(Accepted(k))
        /\ InTable(k).volume + Flushed(k).volume = QuantityOf(Accepted(k))

\* A trade arrived for a minute whose candle the flush had already stored and
\* deleted: one trade of the key is in the stored candle, the other in the table.
C36_Witness ==
    \E k \in DOMAIN candles \cap DOMAIN cold :
        /\ Cardinality(Accepted(k)) = 2
        /\ candles[k].TradeCount = 1
        /\ cold[k].trade_count = 1

\* The candle of key k belongs to a minute that is over.
Completed(k) == k[2] < Truncate(now, Minute)

\* C37: a candle of a completed minute whose StoreCandleData call failed on
\* some flush tick stays pending and is tried again: after a flush tick on
\* which the cold store accepts its write it is stored and gone from the
\* table, and what is stored for its key holds all trades processed for the
\* key up to that tick, those that arrived between the ticks included.
C37_FlushRetried ==
    flushLog.ran =>
        \A k \in DOMAIN upserts :
            (upserts[k].failed /\ Completed(k) /\ k \notin flushLog.errors) =>
                /\ k \notin DOMAIN candles
                /\ k \in DOMAIN cold
                /\ cold[k].trade_count = Cardinality(Accepted(k))
                /\ cold[k].volume = QuantityOf(Accepted(k))

\* The upsert of a candle failed, a second trade of its minute arrived, and
\* the one successful upsert of the key stored the candle with both trades.
C37_Witness ==
    /\ flushLog.ran
    /\ \E k \in flushLog.attempted \ flushLog.errors :
          /\ upserts[k].failed
          /\ upserts[k].flush = 1
          /\ Cardinality(Accepted(k)) = 2
          /\ cold[k].trade_count = 2
          /\ k \notin DOMAIN candles

\* The table as it was before the last StoreCandleData call.
BeforeLastStore ==
    LET k == <<lastStore.symbol, lastStore.candle.Timestamp>>
    IN  IF lastStore.before = {}
        THEN [j \in DOMAIN cold \ {k} |-> cold[j]]
        ELSE [j \in DOMAIN cold |->
                IF j = k THEN CHOOSE e \in lastStore.before : TRUE ELSE cold[j]]

\* The table had the candles of the last call and of the call of this step
\* been stored in the other order.
OtherOrder ==
    StoreCandleData(
        StoreCandleData(BeforeLastStore, lastStore'.symbol, lastStore'.candle, TRUE).db,
        lastStore.symbol, lastStore.candle, TRUE).db

\* C39: when two candles are upserted to the same (symbol, timestamp), as the
\* aggregator's and the migrator's are, the high, low, volume and trade_count of
\* the row are the same whichever of the two upserts is applied first.
C39_UpsertOrder ==
    [][(/\ lastStore.n > 0 /\ ~lastStore.err
        /\ lastStore'.n = lastStore.n + 1 /\ ~lastStore'.err
        /\ lastStore'.symbol = lastStore.symbol
        /\ lastStore'.candle.Timestamp = lastStore.candle.Timestamp) =>
            LET k == <<lastStore.symbol, lastStore.candle.Timestamp>>
            IN  /\ cold'[k].high = OtherOrder[k].high
                /\ cold'[k].low = OtherOrder[k].low
                /\ cold'[k].volume = OtherOrder[k].volume
                /\ cold'[k].trade_count = OtherOrder[k].trade_count
      ]_vars

\* Two candles that differ in high, low, volume and trade count have been
\* upserted to one key, the second onto the row the first made.
C39_Witness ==
    /\ lastStore.n = 2 /\ ~lastStore.err
    /\ \E e \in lastStore.before :
          /\ e.high # ParseNum(lastStore.candle.HighPrice)
          /\ e.low # ParseNum(lastStore.candle.LowPrice)
          /\ e.volume # ParseNum(lastStore.candle.Volume)
          /\ e.trade_count # lastStore.candle.TradeCount

\* C40: splitting the working set into groups comes to an end for every
\* working set and every configuration Validate accepts: the loop does not
\* stop the process, and it makes no more iterations than there are symbols
\* before the manager goes on to its sessions.
C40_GroupingTerminates ==
    \A v \in Managers :
        /\ manager[v].pc # "panic"
        /\ manager[v].pc = "grouping" =>
              Len(manager[v].groups) <= Len(manager[v].result.symbols)
====
